---- MODULE Spec2Model ----
(***************************************************************************)
(* Model of my-first-mcp: the project analyzer (project-analyzer.ts, as    *)
(* listed in src/process-task-list.md) with countLines, analyzeStructure,  *)
(* analyzeDependencies and the per-file line classifier analyzeFileLines;  *)
(* the router's analysis tool handlers (index.ts); the Cache class and     *)
(* validatePath (src/unnamed/part_002); calculate and                      *)
(* generateRandomNumbers (tools.ts); getHelpTopic (src/unnamed/part_000).  *)
(*                                                                         *)
(* Strings of the program (file names, file contents, lines, comment       *)
(* tokens) are sequences of one-character strings, so that trim,           *)
(* startsWith, includes, split and path.extname are computed as the code   *)
(* computes them.                                                          *)
(***************************************************************************)
EXTENDS Integers, Sequences, FiniteSets, TLC

VARIABLES
    fs,        \* what lies on disk at the target path (read-only for the program)
    call,      \* the last step: the entry point invoked, with its arguments
    result,    \* the value that call returned
    content,   \* analyzeFileLines: the content being classified
    ext,       \* analyzeFileLines: the extension argument
    pos,       \* analyzeFileLines: number of lines the loop has processed
    lst,       \* analyzeFileLines: code/comment/blank/inMultiLineComment
    cls,       \* analyzeFileLines: for each processed line, the counter it
               \* incremented and inMultiLineComment after it
    manifest,  \* what lies on disk at <project path>/package.json
    response,  \* the tool response the router built from the last result
    cache,     \* the Cache object: its store and its defaultTTL
    now,       \* Date.now(), in milliseconds
    hist       \* history of the cache: per key, the last set since the last
               \* clear, and the keys the last step removed

vars == <<fs, call, result, content, ext, pos, lst, cls,
          manifest, response, cache, now, hist>>

classifierVars == <<content, ext, pos, lst, cls>>
cacheVars == <<cache, now, hist>>

(***************************************************************************)
(* Bounds of the model.                                                    *)
(***************************************************************************)
MaxNodes == 3      \* entries of the directory tree below its root
MaxLines == 4      \* lines of a classified content
MaxSkew == 1       \* milliseconds the clock may show past each listed instant
MaxSegments == 3   \* segments of a target path given to validatePath
MaxNumber == 2     \* largest magnitude of a number argument
MaxCount == 2      \* largest count given to generateRandomNumbers
RandomGrid == 4    \* Math.random() returns one of 0/RandomGrid .. (RandomGrid-1)/RandomGrid

(***************************************************************************)
(* String primitives of the JavaScript runtime.                            *)
(***************************************************************************)
WhiteSpace == {" ", "\t", "\r"}

StartsWith(s, p) == Len(s) >= Len(p) /\ SubSeq(s, 1, Len(p)) = p

Includes(s, p) ==
    \E i \in 1..(Len(s) - Len(p) + 1) : SubSeq(s, i, i + Len(p) - 1) = p

RECURSIVE TrimStart(_)
TrimStart(s) ==
    IF s # <<>> /\ Head(s) \in WhiteSpace THEN TrimStart(Tail(s)) ELSE s

RECURSIVE TrimEnd(_)
TrimEnd(s) ==
    IF s # <<>> /\ s[Len(s)] \in WhiteSpace
    THEN TrimEnd(SubSeq(s, 1, Len(s) - 1)) ELSE s

Trim(s) == TrimEnd(TrimStart(s))

\* content.split("\n"): one segment more than there are line feeds.
RECURSIVE SplitFrom(_, _, _)
SplitFrom(s, i, cur) ==
    IF i > Len(s) THEN <<cur>>
    ELSE IF s[i] = "\n" THEN <<cur>> \o SplitFrom(s, i + 1, <<>>)
    ELSE SplitFrom(s, i + 1, Append(cur, s[i]))

SplitLines(s) == SplitFrom(s, 1, <<>>)

RECURSIVE JoinLines(_)
JoinLines(ls) ==
    IF Len(ls) = 0 THEN <<>>
    ELSE IF Len(ls) = 1 THEN ls[1]
    ELSE ls[1] \o <<"\n">> \o JoinLines(Tail(ls))

\* path.extname(name).slice(1): the text after the last dot, unless that dot
\* is the first character of the name or there is none.
LastDot(name) ==
    IF \E i \in 1..Len(name) : name[i] = "."
    THEN CHOOSE i \in 1..Len(name) :
            name[i] = "." /\ \A j \in (i + 1)..Len(name) : name[j] # "."
    ELSE 0

Extname(name) ==
    IF LastDot(name) <= 1 THEN <<>> ELSE SubSeq(name, LastDot(name), Len(name))

Slice1(s) == IF s = <<>> THEN <<>> ELSE Tail(s)

(***************************************************************************)
(* Comment-pattern tables.  The empty sequence stands for null.            *)
(***************************************************************************)
Null == <<>>

E_ts == <<"t", "s">>
E_js == <<"j", "s">>
E_tsx == <<"t", "s", "x">>
E_jsx == <<"j", "s", "x">>
E_json == <<"j", "s", "o", "n">>
E_md == <<"m", "d">>
E_txt == <<"t", "x", "t">>
E_css == <<"c", "s", "s">>
E_scss == <<"s", "c", "s", "s">>
E_html == <<"h", "t", "m", "l">>
E_py == <<"p", "y">>
E_go == <<"g", "o">>
E_rs == <<"r", "s">>
E_java == <<"j", "a", "v", "a">>
E_c == <<"c">>
E_cpp == <<"c", "p", "p">>
E_h == <<"h">>
E_bin == <<"b", "i", "n">>

textExtensions ==
    {E_ts, E_js, E_tsx, E_jsx, E_json, E_md, E_txt, E_css, E_scss, E_html,
     E_py, E_go, E_rs, E_java, E_c, E_cpp, E_h}

SlashSlash == <<"/", "/">>
SlashStar == <<"/", "*">>
StarSlash == <<"*", "/">>
HtmlOpen == <<"<", "!", "-", "-">>
HtmlClose == <<"-", "-", ">">>
Hash == <<"#">>

getSingleLineCommentPattern(e) ==
    IF e \in {E_ts, E_js, E_tsx, E_jsx, E_java, E_c, E_cpp, E_go, E_rs, E_scss}
    THEN SlashSlash
    ELSE IF e = E_py THEN Hash
    ELSE Null

getMultiLineCommentStart(e) ==
    IF e \in {E_ts, E_js, E_tsx, E_jsx, E_java, E_c, E_cpp, E_go, E_css, E_scss}
    THEN SlashStar
    ELSE IF e = E_html THEN HtmlOpen
    ELSE Null

getMultiLineCommentEnd(e) ==
    IF e \in {E_ts, E_js, E_tsx, E_jsx, E_java, E_c, E_cpp, E_go, E_css, E_scss}
    THEN StarSlash
    ELSE IF e = E_html THEN HtmlClose
    ELSE Null

(***************************************************************************)
(* analyzeFileLines: one iteration of the loop over the lines, and the     *)
(* whole function as the loop run over every line.                         *)
(***************************************************************************)
\* Variant of LoopInit: the multi-line state starts open.
LoopInit_StartsOpen == [code |-> 0, comment |-> 0, blank |-> 0, inMultiLineComment |-> TRUE]

LoopInit == [code |-> 0, comment |-> 0, blank |-> 0, inMultiLineComment |-> FALSE]

\* Variant of ClassifyLine: a line with the end token does not close the state.
ClassifyLine_NeverCloses(st, line, e) ==
    LET trimmed == Trim(line)
        singleLineComment == getSingleLineCommentPattern(e)
        multiLineStart == getMultiLineCommentStart(e)
        multiLineEnd == getMultiLineCommentEnd(e)
    IN  IF trimmed = <<>> THEN [st EXCEPT !.blank = @ + 1]
        ELSE IF st.inMultiLineComment
        THEN [st EXCEPT !.comment = @ + 1]
        ELSE IF multiLineStart # Null /\ StartsWith(trimmed, multiLineStart)
        THEN [st EXCEPT !.comment = @ + 1,
                        !.inMultiLineComment =
                            (multiLineEnd = Null \/ ~Includes(trimmed, multiLineEnd))]
        ELSE IF singleLineComment # Null /\ StartsWith(trimmed, singleLineComment)
        THEN [st EXCEPT !.comment = @ + 1]
        ELSE [st EXCEPT !.code = @ + 1]

\* Variant of ClassifyLine: the open state is tested before the empty line.
ClassifyLine_BlockBeforeBlank(st, line, e) ==
    LET trimmed == Trim(line)
        singleLineComment == getSingleLineCommentPattern(e)
        multiLineStart == getMultiLineCommentStart(e)
        multiLineEnd == getMultiLineCommentEnd(e)
    IN  IF st.inMultiLineComment
        THEN [st EXCEPT !.comment = @ + 1,
                        !.inMultiLineComment =
                            ~(multiLineEnd # Null /\ Includes(trimmed, multiLineEnd))]
        ELSE IF trimmed = <<>> THEN [st EXCEPT !.blank = @ + 1]
        ELSE IF multiLineStart # Null /\ StartsWith(trimmed, multiLineStart)
        THEN [st EXCEPT !.comment = @ + 1,
                        !.inMultiLineComment =
                            (multiLineEnd = Null \/ ~Includes(trimmed, multiLineEnd))]
        ELSE IF singleLineComment # Null /\ StartsWith(trimmed, singleLineComment)
        THEN [st EXCEPT !.comment = @ + 1]
        ELSE [st EXCEPT !.code = @ + 1]

\* Variant of ClassifyLine: a line starting with the start token always opens
\* the state.
ClassifyLine_AlwaysOpens(st, line, e) ==
    LET trimmed == Trim(line)
        singleLineComment == getSingleLineCommentPattern(e)
        multiLineStart == getMultiLineCommentStart(e)
        multiLineEnd == getMultiLineCommentEnd(e)
    IN  IF trimmed = <<>> THEN [st EXCEPT !.blank = @ + 1]
        ELSE IF st.inMultiLineComment
        THEN [st EXCEPT !.comment = @ + 1,
                        !.inMultiLineComment =
                            ~(multiLineEnd # Null /\ Includes(trimmed, multiLineEnd))]
        ELSE IF multiLineStart # Null /\ StartsWith(trimmed, multiLineStart)
        THEN [st EXCEPT !.comment = @ + 1, !.inMultiLineComment = TRUE]
        ELSE IF singleLineComment # Null /\ StartsWith(trimmed, singleLineComment)
        THEN [st EXCEPT !.comment = @ + 1]
        ELSE [st EXCEPT !.code = @ + 1]

\* Variant of ClassifyLine: blank lines are skipped without being counted.
ClassifyLine_DropsBlank(st, line, e) ==
    LET trimmed == Trim(line)
    IN  IF trimmed = <<>> THEN st ELSE [st EXCEPT !.code = @ + 1]

ClassifyLine(st, line, e) ==
    LET trimmed == Trim(line)
        singleLineComment == getSingleLineCommentPattern(e)
        multiLineStart == getMultiLineCommentStart(e)
        multiLineEnd == getMultiLineCommentEnd(e)
    IN  IF trimmed = <<>> THEN [st EXCEPT !.blank = @ + 1]
        ELSE IF st.inMultiLineComment
        THEN [st EXCEPT !.comment = @ + 1,
                        !.inMultiLineComment =
                            ~(multiLineEnd # Null /\ Includes(trimmed, multiLineEnd))]
        ELSE IF multiLineStart # Null /\ StartsWith(trimmed, multiLineStart)
        THEN [st EXCEPT !.comment = @ + 1,
                        !.inMultiLineComment =
                            (multiLineEnd = Null \/ ~Includes(trimmed, multiLineEnd))]
        ELSE IF singleLineComment # Null /\ StartsWith(trimmed, singleLineComment)
        THEN [st EXCEPT !.comment = @ + 1]
        ELSE [st EXCEPT !.code = @ + 1]

RECURSIVE ClassifyFrom(_, _, _, _)
ClassifyFrom(lines, i, st, e) ==
    IF i > Len(lines) THEN st
    ELSE ClassifyFrom(lines, i + 1, ClassifyLine(st, lines[i], e), e)

analyzeFileLines(text, e) ==
    LET lines == SplitLines(text)
        st == ClassifyFrom(lines, 1, LoopInit, e)
    IN  [total |-> Len(lines), code |-> st.code,
         comment |-> st.comment, blank |-> st.blank]

(***************************************************************************)
(* The directory tree.  An entry is a file (content, ok = readable) or a   *)
(* directory (children in readdir order, ok = listable).  A path is the    *)
(* sequence of names appended to the target path.                          *)
(***************************************************************************)
File(name, text, readable) ==
    [name |-> name, kind |-> "file", children |-> <<>>, content |-> text, ok |-> readable]

Dir(name, children, listable) ==
    [name |-> name, kind |-> "dir", children |-> children, content |-> <<>>, ok |-> listable]

\* A symbolic link: the Dirent of readdirSync({withFileTypes: true}) reports
\* the link itself, never what it points to; content is the link's target.
Link(name, target) ==
    [name |-> name, kind |-> "link", children |-> <<>>, content |-> target, ok |-> TRUE]

\* Variant of isDirectory: a link counts as the directory it points to.
isDirectory_FollowsLinks(entry) == entry.kind \in {"dir", "link"}

isDirectory(entry) == entry.kind = "dir"
isFile(entry) == entry.kind = "file"

N_a_ts == <<"a", ".", "t", "s">>
N_b_md == <<"b", ".", "m", "d">>
N_h_ts == <<".", "h", ".", "t", "s">>
N_c_bin == <<"c", ".", "b", "i", "n">>
N_src == <<"s", "r", "c">>
N_git == <<".", "g", "i", "t">>
N_node_modules == <<"n", "o", "d", "e", "_", "m", "o", "d", "u", "l", "e", "s">>

ContentA == <<"/", "/", "c", "\n", " ", "\n", "x", "\n", "/", "*">>
ContentB == <<"/", "*", "\n", "\n", "*", "/", "\n", "x">>
ContentM == <<"#", "t">>

FileSet ==
    {File(N_a_ts, ContentA, TRUE), File(N_a_ts, <<>>, FALSE),
     File(N_b_md, ContentM, TRUE), File(N_h_ts, ContentB, TRUE),
     File(N_c_bin, ContentB, TRUE)}

DirNames == {N_src, N_git, N_node_modules}

UnlistableDirs == {Dir(N_src, <<>>, FALSE)}

NamesOf(entries) == {entries[i].name : i \in 1..Len(entries)}

\* Every list of entries with exactly n entries in all (nested ones included)
\* and no two siblings of the same name, in every readdir order.
RECURSIVE ForestExact(_), EntryExact(_)
ForestExact(n) ==
    IF n = 0 THEN {<<>>}
    ELSE UNION {
            UNION {
                {<<e>> \o r : r \in {q \in ForestExact(n - k) : e.name \notin NamesOf(q)}}
                : e \in EntryExact(k)}
            : k \in 1..n}

EntryExact(k) ==
    (IF k = 1 THEN FileSet \cup UnlistableDirs ELSE {})
    \cup {Dir(nm, c, TRUE) : nm \in DirNames, c \in ForestExact(k - 1)}

\* What lies at the target path: a directory tree, a plain file, or nothing.
NoEntry == [kind |-> "none"]

TreeSet == {Dir(<<>>, f, TRUE) : f \in UNION {ForestExact(n) : n \in 0..MaxNodes}}

TargetSet == TreeSet \cup {NoEntry, File(<<>>, ContentA, TRUE)}

\* The target path given to the entry points; deeper paths append names to it.
TargetPath == <<>>

existsSync(target) == target.kind # "none"

(***************************************************************************)
(* Error values.  A message is a fixed text followed by a path.            *)
(***************************************************************************)
MsgPathNotFound == "path not found: "
MsgENOTDIR == "ENOTDIR: not a directory, scandir "
MsgEACCES == "EACCES: permission denied, scandir "

ErrorText(msg, path) == [text |-> msg, path |-> path]

\* fs.readdirSync(dirPath): the fault it raises, if any.
ReaddirFault(entry, path) ==
    IF entry.kind # "dir" THEN ErrorText(MsgENOTDIR, path)
    ELSE IF ~entry.ok THEN ErrorText(MsgEACCES, path)
    ELSE ErrorText("", path)

ReaddirThrows(entry, path) == ReaddirFault(entry, path).text # ""

(***************************************************************************)
(* countLines and countLinesRecursive.                                     *)
(***************************************************************************)
NoExtensions == [given |-> FALSE, list |-> <<>>]
Extensions(list) == [given |-> TRUE, list |-> list]

InList(list, x) == \E i \in 1..Len(list) : list[i] = x

NewStats_CarriedOver ==
    IF call.op = "countLines" /\ "totalLines" \in DOMAIN result THEN result
    ELSE [success |-> TRUE, totalLines |-> 0, totalFiles |-> 0, codeLines |-> 0,
          commentLines |-> 0, blankLines |-> 0, byExtension |-> <<>>]

NewStats ==
    [success |-> TRUE, totalLines |-> 0, totalFiles |-> 0, codeLines |-> 0,
     commentLines |-> 0, blankLines |-> 0, byExtension |-> <<>>]

NewBucket ==
    [files |-> 0, lines |-> 0, codeLines |-> 0, commentLines |-> 0, blankLines |-> 0]

HasBucket(stats, e) == e \in DOMAIN stats.byExtension

\* Variant of Descends: dot-prefixed directories are walked.
Descends_OnlyNodeModules(entry) == entry.name # N_node_modules

\* Line 645: the directories the walk descends into.
Descends(entry) == ~StartsWith(entry.name, <<".">>) /\ entry.name # N_node_modules

\* Variant of Accepts: the extensions option is not consulted.
Accepts_IgnoresFilter(entry, extensions) ==
    /\ ~StartsWith(entry.name, <<".">>)
    /\ Slice1(Extname(entry.name)) \in textExtensions

\* Lines 649-665: the files that reach the read.
Accepts(entry, extensions) ==
    LET e == Slice1(Extname(entry.name))
    IN  /\ ~(extensions.given /\ Len(extensions.list) > 0 /\ ~InList(extensions.list, e))
        /\ ~StartsWith(entry.name, <<".">>)
        /\ e \in textExtensions

\* Variant of AddFile: the bucket is created anew for every file.
AddFile_ResetsBucket(stats, e, fileStats) ==
    [stats EXCEPT
        !.totalFiles = @ + 1,
        !.totalLines = @ + fileStats.total,
        !.codeLines = @ + fileStats.code,
        !.commentLines = @ + fileStats.comment,
        !.blankLines = @ + fileStats.blank,
        !.byExtension = [x \in DOMAIN stats.byExtension \cup {e} |->
            IF x = e
            THEN [files |-> 1, lines |-> fileStats.total, codeLines |-> fileStats.code,
                  commentLines |-> fileStats.comment, blankLines |-> fileStats.blank]
            ELSE stats.byExtension[x]]]

\* Variant of AddFile: the bucket does not receive the blank lines.
AddFile_BucketSkipsBlank(stats, e, fileStats) ==
    LET with == IF HasBucket(stats, e) THEN stats.byExtension
                ELSE [x \in DOMAIN stats.byExtension \cup {e} |->
                        IF x = e THEN NewBucket ELSE stats.byExtension[x]]
        b == with[e]
    IN  [stats EXCEPT
            !.totalFiles = @ + 1,
            !.totalLines = @ + fileStats.total,
            !.codeLines = @ + fileStats.code,
            !.commentLines = @ + fileStats.comment,
            !.blankLines = @ + fileStats.blank,
            !.byExtension = [with EXCEPT ![e] =
                [files |-> b.files + 1,
                 lines |-> b.lines + fileStats.total,
                 codeLines |-> b.codeLines + fileStats.code,
                 commentLines |-> b.commentLines + fileStats.comment,
                 blankLines |-> b.blankLines]]]

\* Lines 671-692: one read file added to the totals and to its bucket.
AddFile(stats, e, fileStats) ==
    LET with == IF HasBucket(stats, e) THEN stats.byExtension
                ELSE [x \in DOMAIN stats.byExtension \cup {e} |->
                        IF x = e THEN NewBucket ELSE stats.byExtension[x]]
        b == with[e]
    IN  [stats EXCEPT
            !.totalFiles = @ + 1,
            !.totalLines = @ + fileStats.total,
            !.codeLines = @ + fileStats.code,
            !.commentLines = @ + fileStats.comment,
            !.blankLines = @ + fileStats.blank,
            !.byExtension = [with EXCEPT ![e] =
                [files |-> b.files + 1,
                 lines |-> b.lines + fileStats.total,
                 codeLines |-> b.codeLines + fileStats.code,
                 commentLines |-> b.commentLines + fileStats.comment,
                 blankLines |-> b.blankLines + fileStats.blank]]]

\* Variant of VisitFile: a file that cannot be read counts as an empty file.
VisitFile_CountsUnreadable(entry, extensions, stats) ==
    IF ~Accepts(entry, extensions) THEN stats
    ELSE AddFile(stats, Slice1(Extname(entry.name)),
                 IF entry.ok
                 THEN analyzeFileLines(entry.content, Slice1(Extname(entry.name)))
                 ELSE [total |-> 0, code |-> 0, comment |-> 0, blank |-> 0])

\* Lines 648-696: one file entry of the loop.
VisitFile(entry, extensions, stats) ==
    IF ~Accepts(entry, extensions) THEN stats
    ELSE IF ~entry.ok THEN stats
    ELSE AddFile(stats, Slice1(Extname(entry.name)), analyzeFileLines(entry.content, Slice1(Extname(entry.name))))

\* The walk threads w = [stats, thrown, error]: once a fault is thrown the
\* remaining entries of every enclosing loop are not visited.
Walking(stats) == [stats |-> stats, thrown |-> FALSE, error |-> ErrorText("", <<>>)]

RECURSIVE countLinesRecursive(_, _, _, _), countLinesLoop(_, _, _, _, _)
countLinesRecursive(dirPath, dir, extensions, w) ==
    IF ReaddirThrows(dir, dirPath)
    THEN [w EXCEPT !.thrown = TRUE, !.error = ReaddirFault(dir, dirPath)]
    ELSE countLinesLoop(dirPath, dir.children, 1, extensions, w)

countLinesLoop(dirPath, entries, i, extensions, w) ==
    IF w.thrown \/ i > Len(entries) THEN w
    ELSE LET entry == entries[i]
             fullPath == Append(dirPath, entry.name)
             after ==
                IF isDirectory(entry)
                THEN IF Descends(entry)
                     THEN countLinesRecursive(fullPath, entry, extensions, w)
                     ELSE w
                ELSE IF isFile(entry)
                THEN [w EXCEPT !.stats = VisitFile(entry, extensions, w.stats)]
                ELSE w
         IN  countLinesLoop(dirPath, entries, i + 1, extensions, after)

\* Variant of CaughtLines: the counters reached before the fault are returned.
CaughtLines_LeaksStats(w) ==
    [success |-> FALSE, error |-> w.error, totalLines |-> w.stats.totalLines,
     totalFiles |-> w.stats.totalFiles, codeLines |-> w.stats.codeLines,
     commentLines |-> w.stats.commentLines, blankLines |-> w.stats.blankLines,
     byExtension |-> w.stats.byExtension]

\* Lines 622-627: the catch clause of countLines, given what the walk had counted.
CaughtLines(w) == [success |-> FALSE, error |-> w.error]

\* Variant of NotFoundLines: the zeroed stats object is returned with the error.
NotFoundLines_KeepsZeros(targetPath) ==
    [NewStats EXCEPT !.success = FALSE] @@
    [error |-> ErrorText(MsgPathNotFound, targetPath)]

\* Lines 602-607 and 439-445: the result for a path that does not exist.
NotFoundLines(targetPath) ==
    [success |-> FALSE, error |-> ErrorText(MsgPathNotFound, targetPath)]

NotFoundStructure(targetPath) ==
    [success |-> FALSE, path |-> targetPath,
     error |-> ErrorText(MsgPathNotFound, targetPath)]

\* The walk of countLines over an existing target, as left when it ends.
LinesWalk(target, targetPath, extensions) ==
    countLinesRecursive(targetPath, target, extensions, Walking(NewStats))

countLines(target, targetPath, extensions) ==
    IF ~existsSync(target) THEN NotFoundLines(targetPath)
    ELSE LET w == LinesWalk(target, targetPath, extensions)
         IN  IF w.thrown THEN CaughtLines(w) ELSE w.stats

(***************************************************************************)
(* analyzeStructure and buildTree.  The rendered text is the sequence of   *)
(* its lines; a line is its prefix (a sequence of indentation units), its  *)
(* connector, the entry name and the "/" that marks a directory.  Tee,     *)
(* Corner, Bar and Blank stand for the box-drawing units of the source.    *)
(***************************************************************************)
Tee == "|-- "
Corner == "+-- "
Bar == "|   "
Blank == "    "

TreeLine(prefix, connector, name, slash) ==
    [prefix |-> prefix, connector |-> connector, name |-> name, slash |-> slash]

\* a.name.localeCompare(b.name): punctuation sorts before letters.
CollationOrder ==
    <<"_", ".", "a", "b", "c", "d", "e", "f", "g", "h", "i", "j", "k", "l", "m",
      "n", "o", "p", "q", "r", "s", "t", "u", "v", "w", "x", "y", "z">>

Rank(c) == CHOOSE i \in 1..Len(CollationOrder) : CollationOrder[i] = c

RECURSIVE localeCompare(_, _)
localeCompare(a, b) ==
    IF a = <<>> /\ b = <<>> THEN 0
    ELSE IF a = <<>> THEN -1
    ELSE IF b = <<>> THEN 1
    ELSE IF Rank(Head(a)) < Rank(Head(b)) THEN -1
    ELSE IF Rank(Head(a)) > Rank(Head(b)) THEN 1
    ELSE localeCompare(Tail(a), Tail(b))

\* Variant of Compare: names alone decide the order.
Compare_NamesOnly(a, b) == localeCompare(a.name, b.name)

\* Lines 486-490: the comparator of the sort.
Compare(a, b) ==
    IF isDirectory(a) /\ ~isDirectory(b) THEN -1
    ELSE IF ~isDirectory(a) /\ isDirectory(b) THEN 1
    ELSE localeCompare(a.name, b.name)

RECURSIVE InsertSorted(_, _)
InsertSorted(sorted, e) ==
    IF sorted = <<>> THEN <<e>>
    ELSE IF Compare(e, Head(sorted)) < 0 THEN <<e>> \o sorted
    ELSE <<Head(sorted)>> \o InsertSorted(Tail(sorted), e)

RECURSIVE SortFrom(_, _, _)
SortFrom(entries, i, sorted) ==
    IF i > Len(entries) THEN sorted
    ELSE SortFrom(entries, i + 1, InsertSorted(sorted, entries[i]))

SortEntries(entries) == SortFrom(entries, 1, <<>>)

\* Variant of Shown: dot-prefixed entries are dropped whatever showHidden is.
Shown_IgnoresFlag(entry, showHidden) == ~StartsWith(entry.name, <<".">>)

\* Line 485: the entries that survive the hidden-name filter.
Shown(entry, showHidden) == showHidden \/ ~StartsWith(entry.name, <<".">>)

FilterShown(entries, showHidden) ==
    SelectSeq(entries, LAMBDA e : Shown(e, showHidden))

\* maxDepth: a number, or Infinity when the option is absent.
Infinity == [finite |-> FALSE, value |-> 0]
Depth(n) == [finite |-> TRUE, value |-> n]

\* Variant of DepthReached: one level too many is rendered.
DepthReached_OffByOne(depth, maxDepth) == maxDepth.finite /\ depth > maxDepth.value

\* Line 476: depth >= maxDepth.
DepthReached(depth, maxDepth) == maxDepth.finite /\ depth >= maxDepth.value

\* Variant of NewDirectoryStats: the target directory counts as one.
NewDirectoryStats_CountsTarget == [totalFiles |-> 0, totalDirs |-> 1]

NewDirectoryStats == [totalFiles |-> 0, totalDirs |-> 0]

Building ==
    [tree |-> <<>>, stats |-> NewDirectoryStats, thrown |-> FALSE,
     error |-> ErrorText("", <<>>)]

RECURSIVE buildTree(_, _, _, _, _, _, _), buildTreeLoop(_, _, _, _, _, _, _, _)
buildTree(dirPath, dir, prefix, depth, maxDepth, showHidden, w) ==
    IF DepthReached(depth, maxDepth) THEN w
    ELSE IF ReaddirThrows(dir, dirPath)
    THEN [w EXCEPT !.thrown = TRUE, !.error = ReaddirFault(dir, dirPath)]
    ELSE buildTreeLoop(dirPath, SortEntries(FilterShown(dir.children, showHidden)),
                       1, prefix, depth, maxDepth, showHidden, w)

buildTreeLoop(dirPath, filtered, i, prefix, depth, maxDepth, showHidden, w) ==
    IF w.thrown \/ i > Len(filtered) THEN w
    ELSE LET entry == filtered[i]
             isLast == i = Len(filtered)
             connector == IF isLast THEN Corner ELSE Tee
             newPrefix == Append(prefix, IF isLast THEN Blank ELSE Bar)
             after ==
                IF isDirectory(entry)
                THEN buildTree(Append(dirPath, entry.name), entry, newPrefix, depth + 1,
                               maxDepth, showHidden,
                               [w EXCEPT
                                   !.stats.totalDirs = @ + 1,
                                   !.tree = Append(@, TreeLine(prefix, connector, entry.name, TRUE))])
                ELSE [w EXCEPT
                         !.stats.totalFiles = @ + 1,
                         !.tree = Append(@, TreeLine(prefix, connector, entry.name, FALSE))]
         IN  buildTreeLoop(dirPath, filtered, i + 1, prefix, depth, maxDepth, showHidden, after)

\* The catch clause of analyzeStructure, given what the walk had built.
CaughtStructure(targetPath, w) ==
    [success |-> FALSE, path |-> targetPath, error |-> w.error]

\* The walk of analyzeStructure over an existing target, as left when it ends.
StructureWalk(target, targetPath, maxDepth, showHidden) ==
    buildTree(targetPath, target, <<>>, 0, maxDepth, showHidden, Building)

analyzeStructure(target, targetPath, maxDepth, showHidden) ==
    IF ~existsSync(target) THEN NotFoundStructure(targetPath)
    ELSE LET w == StructureWalk(target, targetPath, maxDepth, showHidden)
         IN  IF w.thrown THEN CaughtStructure(targetPath, w)
             ELSE [success |-> TRUE, path |-> targetPath, tree |-> w.tree, stats |-> w.stats]

(***************************************************************************)
(* analyzeDependencies.  The manifest is described by whether it exists,   *)
(* whether it can be read, whether its text is well-formed JSON and, if    *)
(* so, the value JSON.parse builds from it.  A JSON object is the sequence *)
(* of its <<key, value>> entries in source order; a JSON string is a       *)
(* sequence of characters.                                                 *)
(***************************************************************************)
Undefined == [t |-> "undefined", v |-> <<>>]
JStr(s) == [t |-> "string", v |-> s]
JObj(entries) == [t |-> "object", v |-> entries]

\* JavaScript truthiness of a value.
Truthy(x) ==
    CASE x.t \in {"undefined", "null"} -> FALSE
      [] x.t = "boolean" -> x.v
      [] x.t = "number" -> x.v # 0
      [] x.t = "string" -> x.v # <<>>
      [] OTHER -> TRUE

\* pkg.key on a value that is neither null nor undefined.
HasKey(x, key) == x.t = "object" /\ \E i \in 1..Len(x.v) : x.v[i][1] = key

Get(x, key) ==
    IF HasKey(x, key)
    THEN x.v[CHOOSE i \in 1..Len(x.v) : x.v[i][1] = key][2]
    ELSE Undefined

\* Object.entries on a truthy value.
ObjectEntries(x) ==
    CASE x.t = "object" -> x.v
      [] x.t = "string" -> [i \in 1..Len(x.v) |-> <<<<"0", "1", "2", "3">>[i], JStr(<<x.v[i]>>)>>]
      [] OTHER -> <<>>

DependencyList(x) ==
    [i \in 1..Len(ObjectEntries(x)) |->
        [name |-> ObjectEntries(x)[i][1], version |-> ObjectEntries(x)[i][2]]]

ScriptList(x) ==
    [i \in 1..Len(ObjectEntries(x)) |->
        [name |-> ObjectEntries(x)[i][1], command |-> ObjectEntries(x)[i][2]]]

Manifest(value) ==
    [exists |-> TRUE, readable |-> TRUE, wellFormed |-> TRUE, value |-> value]

NoManifest ==
    [exists |-> FALSE, readable |-> FALSE, wellFormed |-> FALSE, value |-> Undefined]

UnreadableManifest == [NoManifest EXCEPT !.exists = TRUE]

MalformedManifest == [NoManifest EXCEPT !.exists = TRUE, !.readable = TRUE]

PathJoin(dir, name) == IF dir = <<>> THEN name ELSE dir \o <<"/">> \o name

MsgManifestNotFound == "package.json not found: "
MsgReadEACCES == "EACCES: permission denied, open "
MsgSyntaxError == "Unexpected end of JSON input"
MsgTypeError == "Cannot read properties of null (reading 'name')"

\* An optional argument: omitted, or given with a value.
NoArg == [given |-> FALSE, value |-> 0]
Arg(x) == [given |-> TRUE, value |-> x]

\* const { includeDevDeps = true } = options
includeDevDepsOf(option) == IF option.given THEN option.value ELSE TRUE

\* r with the field added when the condition holds.
WithField(r, cond, field, value) ==
    IF cond THEN [f \in DOMAIN r \cup {field} |-> IF f = field THEN value ELSE r[f]]
    ELSE r

IncludesDev_IgnoresOption(includeDevDeps, pkg) == Truthy(Get(pkg, "devDependencies"))

IncludesDev(includeDevDeps, pkg) ==
    includeDevDeps /\ Truthy(Get(pkg, "devDependencies"))

\* The body of the try block once the manifest has been parsed.
Project(pkg, includeDevDeps) ==
    LET r0 == [success |-> TRUE, name |-> Get(pkg, "name"),
               version |-> Get(pkg, "version"),
               description |-> Get(pkg, "description")]
        r1 == WithField(r0, Truthy(Get(pkg, "dependencies")), "dependencies",
                        DependencyList(Get(pkg, "dependencies")))
        r2 == WithField(r1, IncludesDev(includeDevDeps, pkg), "devDependencies",
                        DependencyList(Get(pkg, "devDependencies")))
    IN  WithField(r2, Truthy(Get(pkg, "scripts")), "scripts",
                  ScriptList(Get(pkg, "scripts")))

CaughtDependencies_DropsMessage(error) ==
    [success |-> FALSE, error |-> ErrorText("", <<>>)]

CaughtDependencies(error) == [success |-> FALSE, error |-> error]

analyzeDependencies(file, targetPath, option) ==
    LET packagePath ==
            PathJoin(targetPath, <<"p", "a", "c", "k", "a", "g", "e", ".", "j", "s", "o", "n">>)
    IN  IF ~file.exists
        THEN [success |-> FALSE, error |-> ErrorText(MsgManifestNotFound, packagePath)]
        ELSE IF ~file.readable
        THEN CaughtDependencies(ErrorText(MsgReadEACCES, packagePath))
        ELSE IF ~file.wellFormed
        THEN CaughtDependencies(ErrorText(MsgSyntaxError, <<>>))
        ELSE IF file.value.t \in {"null", "undefined"}
        THEN CaughtDependencies(ErrorText(MsgTypeError, <<>>))
        ELSE Project(file.value, includeDevDepsOf(option))

(***************************************************************************)
(* The tool handlers of the router (index.ts): each calls its core         *)
(* function and wraps the result into a response.  A response text is the  *)
(* sequence of its template segments, each a literal followed by the value *)
(* interpolated after it.  The rows of the per-extension table are kept as *)
(* a set: the order the handler sorts them into is not represented.        *)
(***************************************************************************)
Seg(lit, val) == [lit |-> lit, val |-> val]

TextContent(text) == <<[type |-> "text", text |-> text]>>

MsgErrorPrefix == "error: "

ErrorResponse_NoFlag(res) == [content |-> TextContent(<<Seg(MsgErrorPrefix, res.error)>>)]

ErrorResponse(res) ==
    [content |-> TextContent(<<Seg(MsgErrorPrefix, res.error)>>), isError |-> TRUE]

StructureText(res) ==
    <<Seg("[folder] ", res.path), Seg("\n\n", res.tree)>> \o
    (IF "stats" \in DOMAIN res
     THEN <<Seg("\n\n[stats] files: ", res.stats.totalFiles),
            Seg(", folders: ", res.stats.totalDirs)>>
     ELSE <<>>)

StructureResponse(res) ==
    IF ~res.success THEN ErrorResponse(res)
    ELSE [content |-> TextContent(StructureText(res))]

\* A section of the text: its title with the number of items, then the line
\* the forEach appends for each {name, version} or {name, command}.
Section(res, field, title, item) ==
    IF field \in DOMAIN res /\ Len(res[field]) > 0
    THEN <<Seg(title, Len(res[field]))>> \o
         [i \in 1..Len(res[field]) |->
            Seg("  - ", <<res[field][i].name, res[field][i][item]>>)]
    ELSE <<>>

DependenciesText(res) ==
    <<Seg("[package] ", res.name), Seg(" v", res.version)>> \o
    (IF Truthy(res.description) THEN <<Seg("[description] ", res.description)>> ELSE <<>>) \o
    Section(res, "dependencies", "\n[dependencies] ", "version") \o
    Section(res, "devDependencies", "\n[devDependencies] ", "version") \o
    Section(res, "scripts", "\n[scripts] ", "command")

DependenciesResponse(res) ==
    IF ~res.success THEN ErrorResponse(res)
    ELSE [content |-> TextContent(DependenciesText(res))]

ExtensionRows(byExtension) ==
    {Seg(e, <<byExtension[e].files, byExtension[e].lines,
              byExtension[e].codeLines, byExtension[e].commentLines>>)
        : e \in DOMAIN byExtension}

LinesText(res) ==
    <<Seg("[line statistics]\n\n[files] ", res.totalFiles),
      Seg("[lines] ", res.totalLines),
      Seg("  - code: ", res.codeLines),
      Seg("  - comment: ", res.commentLines),
      Seg("  - blank: ", res.blankLines)>> \o
    (IF Cardinality(DOMAIN res.byExtension) > 0
     THEN <<Seg("\n[by extension]\n", ExtensionRows(res.byExtension))>>
     ELSE <<>>)

LinesResponse(res) ==
    IF ~res.success THEN ErrorResponse(res)
    ELSE [content |-> TextContent(LinesText(res))]

(***************************************************************************)
(* The specification of the analyzer: any sequence of calls on one tree.   *)
(***************************************************************************)
ExtensionOptions ==
    {NoExtensions, Extensions(<<>>), Extensions(<<E_ts>>), Extensions(<<E_ts, E_bin>>)}

MaxDepthOptions == {Infinity, Depth(1), Depth(2)}

NoCall == [op |-> "none"]
NoResult == [none |-> TRUE]

ClassifierIdle ==
    /\ content = <<>>
    /\ ext = <<>>
    /\ pos = 0
    /\ lst = LoopInit
    /\ cls = <<>>

\* The manifest of the specification's scenario: one production and one
\* development dependency.
V1 == <<"1", ".", "0">>
V2 == <<"2", ".", "0">>

MetaEntries ==
    <<<<"name", JStr(<<"p">>)>>, <<"version", JStr(V1)>>, <<"description", JStr(<<"d">>)>>>>

ScenarioManifest ==
    Manifest(JObj(MetaEntries \o <<<<"dependencies", JObj(<<<<"a", JStr(V1)>>>>)>>,
                                   <<"devDependencies", JObj(<<<<"b", JStr(V2)>>>>)>>>>))

DevDepsOptions == {NoArg, Arg(TRUE), Arg(FALSE)}

NoResponse == [none |-> TRUE]

NoCache == [store |-> <<>>, defaultTTL |-> 0]
NoHist == [sets |-> <<>>, removed |-> {}]

AnalyzerIdle ==
    /\ fs = NoEntry
    /\ manifest = NoManifest
    /\ response = NoResponse

CacheIdle ==
    /\ cache = NoCache
    /\ now = 0
    /\ hist = NoHist

Init ==
    /\ fs \in TargetSet
    /\ manifest = ScenarioManifest
    /\ call = NoCall
    /\ result = NoResult
    /\ response = NoResponse
    /\ ClassifierIdle
    /\ CacheIdle

CountLines(extensions) ==
    /\ call' = [op |-> "countLines", extensions |-> extensions]
    /\ result' = countLines(fs, TargetPath, extensions)
    /\ UNCHANGED <<fs, manifest, response, classifierVars, cacheVars>>

AnalyzeStructure(maxDepth, showHidden) ==
    /\ call' = [op |-> "analyzeStructure", maxDepth |-> maxDepth,
                showHidden |-> showHidden]
    /\ result' = analyzeStructure(fs, TargetPath, maxDepth, showHidden)
    /\ UNCHANGED <<fs, manifest, response, classifierVars, cacheVars>>

AnalyzeDependencies(option) ==
    /\ call' = [op |-> "analyzeDependencies", includeDevDeps |-> option]
    /\ result' = analyzeDependencies(manifest, TargetPath, option)
    /\ UNCHANGED <<fs, manifest, response, classifierVars, cacheVars>>

Next ==
    \/ \E x \in ExtensionOptions : CountLines(x)
    \/ \E d \in MaxDepthOptions, h \in BOOLEAN : AnalyzeStructure(d, h)
    \/ \E o \in {NoArg, Arg(FALSE)} : AnalyzeDependencies(o)

Spec == Init /\ [][Next]_vars

(***************************************************************************)
(* The specification of the analyzer on trees with cyclic symbolic links:  *)
(* a link named loop that points to its own directory or to the parent.    *)
(***************************************************************************)
N_loop == <<"l", "o", "o", "p">>
Here == <<".">>
Parent == <<".", ".">>

LinkEntrySet ==
    {Link(N_loop, Here),
     File(N_a_ts, ContentA, TRUE),
     File(N_b_md, ContentM, TRUE),
     Dir(N_src, <<Link(N_loop, Parent)>>, TRUE),
     Dir(N_src, <<File(N_a_ts, ContentA, TRUE), Link(N_loop, Here)>>, TRUE),
     Dir(N_git, <<Link(N_loop, Parent)>>, TRUE)}

\* The lists of up to n entries of distinct names, in every order.
RECURSIVE LinkForest(_)
LinkForest(n) ==
    IF n = 0 THEN {<<>>}
    ELSE LET shorter == LinkForest(n - 1)
         IN  shorter \cup
             UNION {{<<e>> \o r :
                        r \in {q \in shorter : Len(q) = n - 1 /\ e.name \notin NamesOf(q)}}
                    : e \in LinkEntrySet}

RECURSIVE HasLink(_)
HasLink(entries) ==
    \E i \in 1..Len(entries) :
        entries[i].kind = "link" \/ HasLink(entries[i].children)

LinkTreeSet == {Dir(<<>>, f, TRUE) : f \in {q \in LinkForest(MaxNodes) : HasLink(q)}}

InitLinks ==
    /\ fs \in LinkTreeSet
    /\ manifest = NoManifest
    /\ call = NoCall
    /\ result = NoResult
    /\ response = NoResponse
    /\ ClassifierIdle
    /\ CacheIdle

NextLinks ==
    \/ \E x \in ExtensionOptions : CountLines(x)
    \/ \E d \in MaxDepthOptions, h \in BOOLEAN : AnalyzeStructure(d, h)

SpecLinks == InitLinks /\ [][NextLinks]_vars

(***************************************************************************)
(* The specification of the router's analysis tools: any sequence of       *)
(* analyze_structure, analyze_dependencies and count_lines requests on one *)
(* project.                                                                *)
(***************************************************************************)
ToolTargets ==
    {NoEntry,
     File(<<>>, ContentA, TRUE),
     Dir(<<>>, <<File(N_a_ts, ContentA, TRUE), File(N_b_md, ContentM, TRUE)>>, TRUE),
     Dir(<<>>, <<Dir(N_src, <<File(N_a_ts, ContentA, TRUE)>>, TRUE),
                 Dir(N_src, <<>>, FALSE)>>, TRUE)}

\* What a field of the manifest may hold; Undefined stands for "no such field".
FieldValues ==
    {Undefined, [t |-> "null", v |-> <<>>], [t |-> "boolean", v |-> FALSE],
     [t |-> "number", v |-> 0], JObj(<<>>), JObj(<<<<"a", JStr(V1)>>>>),
     JObj(<<<<"b", JStr(V2)>>, <<"a", JStr(V1)>>>>), JStr(<<"x", "y">>)}

ScriptValues == {Undefined, JObj(<<<<"build", JStr(<<"t", "s", "c">>)>>>>)}

Entry(key, x) == IF x.t = "undefined" THEN <<>> ELSE <<<<key, x>>>>

ManifestSet ==
    {NoManifest, UnreadableManifest, MalformedManifest,
     Manifest([t |-> "null", v |-> <<>>]), Manifest([t |-> "number", v |-> 5])}
    \cup {Manifest(JObj(meta \o Entry("dependencies", d)
                             \o Entry("devDependencies", v)
                             \o Entry("scripts", s)))
            : meta \in {<<>>, MetaEntries}, d \in FieldValues,
              v \in FieldValues, s \in ScriptValues}

InitTools ==
    /\ fs \in ToolTargets
    /\ manifest \in ManifestSet
    /\ call = NoCall
    /\ result = NoResult
    /\ response = NoResponse
    /\ ClassifierIdle
    /\ CacheIdle

analyze_structure(maxDepth, showHidden) ==
    /\ call' = [op |-> "analyzeStructure", maxDepth |-> maxDepth,
                showHidden |-> showHidden]
    /\ result' = analyzeStructure(fs, TargetPath, maxDepth, showHidden)
    /\ response' = StructureResponse(result')
    /\ UNCHANGED <<fs, manifest, classifierVars, cacheVars>>

analyze_dependencies(option) ==
    /\ call' = [op |-> "analyzeDependencies", includeDevDeps |-> option]
    /\ result' = analyzeDependencies(manifest, TargetPath, option)
    /\ response' = DependenciesResponse(result')
    /\ UNCHANGED <<fs, manifest, classifierVars, cacheVars>>

count_lines(extensions) ==
    /\ call' = [op |-> "countLines", extensions |-> extensions]
    /\ result' = countLines(fs, TargetPath, extensions)
    /\ response' = LinesResponse(result')
    /\ UNCHANGED <<fs, manifest, classifierVars, cacheVars>>

NextTools ==
    \/ \E d \in MaxDepthOptions, h \in BOOLEAN : analyze_structure(d, h)
    \/ \E o \in DevDepsOptions : analyze_dependencies(o)
    \/ \E x \in ExtensionOptions : count_lines(x)

SpecTools == InitTools /\ [][NextTools]_vars

(***************************************************************************)
(* The specification of analyzeFileLines: the loop over the lines of one   *)
(* content, one iteration per step, then the return.                       *)
(***************************************************************************)
L_empty == <<>>
L_space == <<" ">>
L_code == <<"x">>
L_open == <<" ", "/", "*">>
L_close == <<"x", "*", "/">>
L_openclose == <<"/", "*", "/">>
L_line == <<"/", "/">>

LineSet == {L_empty, L_space, L_code, L_open, L_close, L_openclose, L_line}

ContentSet == {JoinLines(ls) : ls \in UNION {[1..n -> LineSet] : n \in 1..MaxLines}}

ExtSet == {E_ts, E_css, E_rs, E_md}

Lines == SplitLines(content)

\* The counter an iteration incremented.
Counted(before, after) ==
    IF after.blank > before.blank THEN "blank"
    ELSE IF after.comment > before.comment THEN "comment"
    ELSE IF after.code > before.code THEN "code"
    ELSE "none"

InitLines ==
    /\ content \in ContentSet
    /\ ext \in ExtSet
    /\ pos = 0
    /\ lst = LoopInit
    /\ cls = <<>>
    /\ call = NoCall
    /\ result = NoResult
    /\ AnalyzerIdle
    /\ CacheIdle

ClassifyNext ==
    /\ pos < Len(Lines)
    /\ pos' = pos + 1
    /\ lst' = ClassifyLine(lst, Lines[pos + 1], ext)
    /\ cls' = Append(cls, [kind |-> Counted(lst, lst'),
                           open |-> lst'.inMultiLineComment])
    /\ UNCHANGED <<fs, call, result, content, ext, manifest, response, cacheVars>>

ReturnLines ==
    /\ pos = Len(Lines)
    /\ call = NoCall
    /\ call' = [op |-> "analyzeFileLines"]
    /\ result' = [total |-> Len(Lines), code |-> lst.code,
                  comment |-> lst.comment, blank |-> lst.blank]
    /\ UNCHANGED <<fs, manifest, response, classifierVars, cacheVars>>

NextLines == ClassifyNext \/ ReturnLines

SpecLines == InitLines /\ [][NextLines]_vars

(***************************************************************************)
(* The Cache class.  The store is a function from the stored keys to       *)
(* their entries {data, expiry}; times are in milliseconds.                *)
(***************************************************************************)
DefaultTtlSeconds == 300

\* constructor(ttlSeconds: number = 300)
NewCache(ttlSeconds) ==
    [store |-> <<>>,
     defaultTTL |-> (IF ttlSeconds.given THEN ttlSeconds.value
                     ELSE DefaultTtlSeconds) * 1000]

MapSet(store, key, entry) ==
    [k \in DOMAIN store \cup {key} |-> IF k = key THEN entry ELSE store[k]]

MapDelete(store, key) == [k \in DOMAIN store \ {key} |-> store[k]]

\* ttl || this.defaultTTL
EffectiveTTL(defaultTTL, ttl) ==
    IF ttl.given /\ ttl.value # 0 THEN ttl.value ELSE defaultTTL

Expired_AtExpiry(t, entry) == t >= entry.expiry

Expired(t, entry) == t > entry.expiry

cleanupLoop_ClearsAll(store, keys, t) == <<>>

RECURSIVE cleanupLoop(_, _, _)
cleanupLoop(store, keys, t) ==
    IF keys = {} THEN store
    ELSE LET key == CHOOSE k \in keys : TRUE
         IN  cleanupLoop(IF Expired(t, store[key]) THEN MapDelete(store, key) ELSE store,
                         keys \ {key}, t)

NullValue == [isNull |-> TRUE, data |-> ""]
Value(data) == [isNull |-> FALSE, data |-> data]

(***************************************************************************)
(* validatePath.  A path is a string; path.resolve splits it at the        *)
(* separators, drops empty and "." segments, lets ".." remove the segment  *)
(* before it, and joins what is left below the root.                       *)
(***************************************************************************)
RECURSIVE SegmentsFrom(_, _, _)
SegmentsFrom(p, i, cur) ==
    IF i > Len(p) THEN <<cur>>
    ELSE IF p[i] = "/" THEN <<cur>> \o SegmentsFrom(p, i + 1, <<>>)
    ELSE SegmentsFrom(p, i + 1, Append(cur, p[i]))

Segments(p) == SegmentsFrom(p, 1, <<>>)

RECURSIVE NormalizeFrom(_, _, _)
NormalizeFrom(segs, i, acc) ==
    IF i > Len(segs) THEN acc
    ELSE IF segs[i] \in {<<>>, <<".">>} THEN NormalizeFrom(segs, i + 1, acc)
    ELSE IF segs[i] = <<".", ".">>
    THEN NormalizeFrom(segs, i + 1,
                       IF acc = <<>> THEN acc ELSE SubSeq(acc, 1, Len(acc) - 1))
    ELSE NormalizeFrom(segs, i + 1, Append(acc, segs[i]))

Normalize(segs) == NormalizeFrom(segs, 1, <<>>)

RECURSIVE JoinSegments(_)
JoinSegments(segs) ==
    IF segs = <<>> THEN <<>> ELSE <<"/">> \o Head(segs) \o JoinSegments(Tail(segs))

AbsolutePath(segs) == IF segs = <<>> THEN <<"/">> ELSE JoinSegments(segs)

isAbsolute(p) == p # <<>> /\ p[1] = "/"

\* process.cwd()
Cwd == <<"/", "w">>

\* The segments of path.resolve(...paths): the rightmost absolute path and
\* everything after it, below the working directory when none is absolute.
RECURSIVE ResolveFrom(_, _, _)
ResolveFrom(paths, i, tail) ==
    IF i = 0 THEN Segments(Cwd) \o tail
    ELSE IF isAbsolute(paths[i]) THEN Segments(paths[i]) \o tail
    ELSE ResolveFrom(paths, i - 1, Segments(paths[i]) \o tail)

ResolvedSegments(paths) == Normalize(ResolveFrom(paths, Len(paths), <<>>))

resolve(paths) == AbsolutePath(ResolvedSegments(paths))

MsgPathEscape == "path escape attempt detected"

Throw(message) == [thrown |-> TRUE, value |-> <<>>, message |-> message]
Return(value) == [thrown |-> FALSE, value |-> value, message |-> ""]

validatePath(basePath, targetPath) ==
    LET resolved == resolve(<<basePath, targetPath>>)
    IN  IF ~StartsWith(resolved, resolve(<<basePath>>)) THEN Throw(MsgPathEscape)
        ELSE Return(resolved)

(***************************************************************************)
(* calculate and generateRandomNumbers.  Numbers are integers; a quotient  *)
(* is kept as the fraction of its operands; NaN is a value of its own.     *)
(***************************************************************************)
NaN == [nan |-> TRUE, num |-> 0, den |-> 0]

Number(n) == [nan |-> FALSE, num |-> n, den |-> 1]

Quotient(a, b) == [nan |-> FALSE, num |-> a, den |-> b]

symbols ==
    [add |-> "+", subtract |-> "-", multiply |-> "x", divide |-> "/"]

MsgDivideByZero == "error: cannot divide by zero"

DividesByZero_AnyOperation(operation, b) == b = 0

DividesByZero(operation, b) == operation = "divide" /\ b = 0

calculate(a, b, operation) ==
    IF DividesByZero(operation, b)
    THEN [result |-> NaN, expression |-> <<a, symbols[operation], b>>,
          isError |-> TRUE, errorMessage |-> MsgDivideByZero]
    ELSE LET r == CASE operation = "add" -> Number(a + b)
                    [] operation = "subtract" -> Number(a - b)
                    [] operation = "multiply" -> Number(a * b)
                    [] operation = "divide" -> Quotient(a, b)
         IN  [result |-> r, expression |-> <<a, symbols[operation], b, "=", r>>,
              isError |-> FALSE]

MsgMinAboveMax == "error: min is greater than max"

\* Math.random() returning draw / RandomGrid: Math.floor(random * span) + min.
RandomNum_Rounds(draw, min, max) ==
    ((2 * draw * (max - min + 1) + RandomGrid) \div (2 * RandomGrid)) + min

RandomNum(draw, min, max) == ((draw * (max - min + 1)) \div RandomGrid) + min

\* count: number = 1
countOf(count) == IF count.given THEN count.value ELSE 1

\* The loop pushes one number per draw; draws has one draw per iteration.
generateRandomNumbers(min, max, count, draws) ==
    IF min > max
    THEN [numbers |-> <<>>, min |-> min, max |-> max, isError |-> TRUE,
          errorMessage |-> MsgMinAboveMax]
    ELSE [numbers |-> [i \in 1..countOf(count) |-> RandomNum(draws[i], min, max)],
          min |-> min, max |-> max, isError |-> FALSE]

(***************************************************************************)
(* getHelpTopic.  helpTopics is an object literal: reading a property it   *)
(* does not own falls through to Object.prototype, whose properties are    *)
(* functions (and, for __proto__, the prototype object itself).            *)
(***************************************************************************)
helpTopics ==
    [tools |-> JStr(<<"#", "T">>), resources |-> JStr(<<"#", "R">>),
     prompts |-> JStr(<<"#", "P">>)]

\* object[key]: an own property, else a property of Object.prototype.
GetProperty(object, key) ==
    IF key \in DOMAIN object THEN object[key]
    ELSE IF key \in {"constructor", "toString", "toLocaleString", "valueOf",
                     "hasOwnProperty", "isPrototypeOf", "propertyIsEnumerable",
                     "__proto__", "__defineGetter__", "__defineSetter__",
                     "__lookupGetter__", "__lookupSetter__"}
    THEN [t |-> "inherited", v |-> key]
    ELSE Undefined

MsgUnknownTopic == JStr(<<"?", "T", "R", "P">>)

getHelpTopic(topic) ==
    LET found == GetProperty(helpTopics, topic)
    IN  [uri |-> Seg("help://topic/", topic),
         mimeType |-> "text/plain",
         content |-> IF Truthy(found) THEN found ELSE MsgUnknownTopic]

(***************************************************************************)
(* The specification of the cache: any sequence of set, get, clear,        *)
(* cleanup and size on one Cache object while the clock advances.          *)
(***************************************************************************)
KeySet == {"k1", "k2"}
DataSet == {"v1", "v2"}
TtlOptions == {NoArg, Arg(0), Arg(1)}
TtlSecondsOptions == {NoArg, Arg(1)}

\* The instants the clock may show: the start and each default TTL, each
\* followed by up to MaxSkew further milliseconds.
Instants ==
    {base + s : base \in {0} \cup {NewCache(o).defaultTTL : o \in TtlSecondsOptions},
                s \in 0..MaxSkew}

InitCache ==
    /\ cache \in {NewCache(o) : o \in TtlSecondsOptions}
    /\ now = 0
    /\ hist = NoHist
    /\ call = NoCall
    /\ result = NoResult
    /\ ClassifierIdle
    /\ AnalyzerIdle

\* The keys the step removes from the store.
Removed == DOMAIN cache.store \ DOMAIN cache'.store

Cache_set(key, data, ttl) ==
    /\ call' = [op |-> "set", key |-> key, data |-> data, ttl |-> ttl]
    /\ result' = [void |-> TRUE]
    /\ cache' = [cache EXCEPT !.store =
                    MapSet(@, key, [data |-> data,
                                    expiry |-> now + EffectiveTTL(cache.defaultTTL, ttl)])]
    /\ hist' = [sets |-> MapSet(hist.sets, key, [at |-> now, ttl |-> ttl, data |-> data]),
                removed |-> {}]
    /\ UNCHANGED <<now, fs, manifest, response, classifierVars>>

\* Variant of Cache_get: a hit renews the entry's expiry.
Cache_get_Renews(key) ==
    /\ call' = [op |-> "get", key |-> key]
    /\ IF key \notin DOMAIN cache.store
       THEN result' = NullValue /\ cache' = cache
       ELSE IF Expired(now, cache.store[key])
       THEN result' = NullValue /\ cache' = [cache EXCEPT !.store = MapDelete(@, key)]
       ELSE /\ result' = Value(cache.store[key].data)
            /\ cache' = [cache EXCEPT !.store[key].expiry = now + cache.defaultTTL]
    /\ hist' = [hist EXCEPT !.removed = Removed]
    /\ UNCHANGED <<now, fs, manifest, response, classifierVars>>

Cache_get(key) ==
    /\ call' = [op |-> "get", key |-> key]
    /\ IF key \notin DOMAIN cache.store
       THEN result' = NullValue /\ cache' = cache
       ELSE IF Expired(now, cache.store[key])
       THEN result' = NullValue /\ cache' = [cache EXCEPT !.store = MapDelete(@, key)]
       ELSE result' = Value(cache.store[key].data) /\ cache' = cache
    /\ hist' = [hist EXCEPT !.removed = Removed]
    /\ UNCHANGED <<now, fs, manifest, response, classifierVars>>

Cache_clear ==
    /\ call' = [op |-> "clear"]
    /\ result' = [void |-> TRUE]
    /\ cache' = [cache EXCEPT !.store = <<>>]
    /\ hist' = [sets |-> <<>>, removed |-> Removed]
    /\ UNCHANGED <<now, fs, manifest, response, classifierVars>>

Cache_cleanup ==
    /\ call' = [op |-> "cleanup"]
    /\ result' = [void |-> TRUE]
    /\ cache' = [cache EXCEPT !.store = cleanupLoop(@, DOMAIN @, now)]
    /\ hist' = [hist EXCEPT !.removed = Removed]
    /\ UNCHANGED <<now, fs, manifest, response, classifierVars>>

\* Variant of Cache_size: entries past their expiry are not counted.
Cache_size_CountsLive ==
    /\ call' = [op |-> "size"]
    /\ result' = Value(Cardinality({k \in DOMAIN cache.store :
                                        ~Expired(now, cache.store[k])}))
    /\ hist' = [hist EXCEPT !.removed = {}]
    /\ UNCHANGED <<cache, now, fs, manifest, response, classifierVars>>

Cache_size ==
    /\ call' = [op |-> "size"]
    /\ result' = Value(Cardinality(DOMAIN cache.store))
    /\ hist' = [hist EXCEPT !.removed = {}]
    /\ UNCHANGED <<cache, now, fs, manifest, response, classifierVars>>

\* Time passes: Date.now() shows a later instant.
Advance(t) ==
    /\ t > now
    /\ now' = t
    /\ call' = [op |-> "advance"]
    /\ result' = NoResult
    /\ hist' = [hist EXCEPT !.removed = {}]
    /\ UNCHANGED <<cache, fs, manifest, response, classifierVars>>

NextCache ==
    \/ \E k \in KeySet, d \in DataSet, ttl \in TtlOptions : Cache_set(k, d, ttl)
    \/ \E k \in KeySet : Cache_get(k)
    \/ Cache_clear
    \/ Cache_cleanup
    \/ Cache_size
    \/ \E t \in Instants : Advance(t)

SpecCache == InitCache /\ [][NextCache]_vars

(***************************************************************************)
(* The specification of the utility functions: one call of validatePath,   *)
(* calculate, generateRandomNumbers or getHelpTopic on arguments chosen at *)
(* the start.                                                              *)
(***************************************************************************)
P_p == <<"p">>
P_p2 == <<"p", "2">>
P_s == <<"s">>
P_up == <<".", ".">>
P_dot == <<".">>

SegmentSet == {P_p, P_p2, P_s, P_up, P_dot}

BasePathSet == {<<"/">>, <<"/", "p">>, <<"/", "p", "/">>, <<"/", "s", "/", "p">>, <<"p">>}

RECURSIVE JoinRelative(_)
JoinRelative(segs) ==
    IF Len(segs) = 1 THEN segs[1] ELSE segs[1] \o <<"/">> \o JoinRelative(Tail(segs))

TargetPathSet ==
    {<<>>} \cup
    UNION {{JoinRelative(segs), <<"/">> \o JoinRelative(segs)}
            : segs \in UNION {[1..n -> SegmentSet] : n \in 1..MaxSegments}}

NumberSet == (0 - MaxNumber)..MaxNumber

OperationSet == {"add", "subtract", "multiply", "divide"}

CountOptions == {NoArg} \cup {Arg(n) : n \in 0..MaxCount}

TopicSet ==
    {"tools", "resources", "prompts", "unknown", "", "Tools", "constructor",
     "toString", "__proto__"}

Pending == DOMAIN result = {"none"}

InitUtil ==
    /\ call \in
          {[op |-> "validatePath", basePath |-> b, targetPath |-> t]
                : b \in BasePathSet, t \in TargetPathSet}
          \cup {[op |-> "calculate", a |-> a, b |-> b, operation |-> o]
                : a \in NumberSet, b \in NumberSet, o \in OperationSet}
          \cup {[op |-> "generateRandomNumbers", min |-> a, max |-> b, count |-> c]
                : a \in NumberSet, b \in NumberSet, c \in CountOptions}
          \cup {[op |-> "getHelpTopic", topic |-> t] : t \in TopicSet}
    /\ result = NoResult
    /\ ClassifierIdle
    /\ AnalyzerIdle
    /\ CacheIdle

ValidatePath ==
    /\ call.op = "validatePath"
    /\ Pending
    /\ result' = validatePath(call.basePath, call.targetPath)
    /\ UNCHANGED <<call, fs, manifest, response, classifierVars, cacheVars>>

Calculate ==
    /\ call.op = "calculate"
    /\ Pending
    /\ result' = calculate(call.a, call.b, call.operation)
    /\ UNCHANGED <<call, fs, manifest, response, classifierVars, cacheVars>>

GenerateRandomNumbers ==
    /\ call.op = "generateRandomNumbers"
    /\ Pending
    /\ \E draws \in [1..countOf(call.count) -> 0..(RandomGrid - 1)] :
            result' = generateRandomNumbers(call.min, call.max, call.count, draws)
    /\ UNCHANGED <<call, fs, manifest, response, classifierVars, cacheVars>>

GetHelpTopic ==
    /\ call.op = "getHelpTopic"
    /\ Pending
    /\ result' = getHelpTopic(call.topic)
    /\ UNCHANGED <<call, fs, manifest, response, classifierVars, cacheVars>>

NextUtil == ValidatePath \/ Calculate \/ GenerateRandomNumbers \/ GetHelpTopic

SpecUtil == InitUtil /\ [][NextUtil]_vars

(***************************************************************************)
(* Vocabulary of the properties: what the last call was, and the tree on   *)
(* disk described by the paths of its entries.                             *)
(***************************************************************************)
IsLines == call.op = "countLines"
IsStructure == call.op = "analyzeStructure"
TargetIsDir == fs.kind = "dir"

HiddenName(name) == name # <<>> /\ name[1] = "."

RECURSIVE PathsUnder(_, _)
PathsUnder(entries, prefix) ==
    UNION {{Append(prefix, entries[i].name)}
           \cup (IF entries[i].kind = "dir"
                 THEN PathsUnder(entries[i].children, Append(prefix, entries[i].name))
                 ELSE {})
           : i \in 1..Len(entries)}

EntryPaths == IF TargetIsDir THEN PathsUnder(fs.children, <<>>) ELSE {}

RECURSIVE EntryAt(_, _)
EntryAt(entry, path) ==
    IF path = <<>> THEN entry
    ELSE EntryAt(entry.children[CHOOSE i \in 1..Len(entry.children) :
                                    entry.children[i].name = Head(path)],
                 Tail(path))

HasHiddenPart(path) == \E i \in 1..Len(path) : HiddenName(path[i])

\* Some directory on the way to the entry is one the line count prunes.
UnderPrunedDir(path) ==
    \E i \in 1..(Len(path) - 1) : HiddenName(path[i]) \/ path[i] = N_node_modules

RECURSIVE SumLines(_, _)
SumLines(byExtension, keys) ==
    IF keys = {} THEN 0
    ELSE LET k == CHOOSE x \in keys : TRUE
         IN  byExtension[k].lines + SumLines(byExtension, keys \ {k})

\* The path of the entry that line i of a rendered tree denotes: its name
\* under the path of the nearest earlier line indented one unit less.
RECURSIVE LinePath(_, _)
LinePath(tree, i) ==
    LET d == Len(tree[i].prefix)
        IsParent(j) ==
            /\ Len(tree[j].prefix) = d - 1
            /\ \A k \in (j + 1)..(i - 1) : Len(tree[k].prefix) >= d
    IN  IF d = 0 THEN <<tree[i].name>>
        ELSE IF \E j \in 1..(i - 1) : IsParent(j)
        THEN Append(LinePath(tree, CHOOSE j \in 1..(i - 1) : IsParent(j)), tree[i].name)
        ELSE <<<<"?">>, tree[i].name>>

RenderedPaths(tree) == {LinePath(tree, i) : i \in 1..Len(tree)}

\* The entries analyzeStructure is to show: within the depth limit and, unless
\* hidden entries are asked for, with no dot-prefixed name on their path.
WithinDepth(path, maxDepth) == ~maxDepth.finite \/ Len(path) <= maxDepth.value

Expected(maxDepth, showHidden) ==
    {p \in EntryPaths : WithinDepth(p, maxDepth) /\ (showHidden \/ ~HasHiddenPart(p))}

\* The tree with every entry the line count is to ignore removed.
RECURSIVE PruneForLines(_)
PruneForLines(entries) ==
    IF entries = <<>> THEN <<>>
    ELSE LET e == Head(entries)
             rest == PruneForLines(Tail(entries))
         IN  IF HiddenName(e.name) \/ (e.kind = "dir" /\ e.name = N_node_modules)
             THEN rest
             ELSE IF e.kind = "dir"
             THEN <<[e EXCEPT !.children = PruneForLines(e.children)]>> \o rest
             ELSE <<e>> \o rest

LineDataFields ==
    {"totalLines", "totalFiles", "codeLines", "commentLines", "blankLines", "byExtension"}

StructureDataFields == {"tree", "stats"}

(***************************************************************************)
(* C1: every successful countLines result has                              *)
(* codeLines + commentLines + blankLines = totalLines.                     *)
(***************************************************************************)
C1_LineKindsSumToTotal ==
    (IsLines /\ result.success) =>
        result.codeLines + result.commentLines + result.blankLines = result.totalLines

C1_Witness ==
    /\ IsLines /\ result.success
    /\ result.totalFiles >= 2
    /\ result.codeLines > 0 /\ result.commentLines > 0 /\ result.blankLines > 0

(***************************************************************************)
(* C2: in every successful countLines result the lines of all extension    *)
(* buckets add up to totalLines.                                           *)
(***************************************************************************)
C2_BucketLinesSumToTotal ==
    (IsLines /\ result.success) =>
        SumLines(result.byExtension, DOMAIN result.byExtension) = result.totalLines

C2_Witness ==
    /\ IsLines /\ result.success
    /\ Cardinality(DOMAIN result.byExtension) >= 2
    /\ result.totalLines >= 2

(***************************************************************************)
(* C3: every bucket of a successful countLines result has files >= 1 and   *)
(* codeLines + commentLines + blankLines = lines.                          *)
(***************************************************************************)
C3_BucketsConsistent ==
    (IsLines /\ result.success) =>
        \A e \in DOMAIN result.byExtension :
            LET b == result.byExtension[e]
            IN  /\ b.files >= 1
                /\ b.codeLines + b.commentLines + b.blankLines = b.lines

C3_Witness ==
    /\ IsLines /\ result.success
    /\ \E e \in DOMAIN result.byExtension :
          /\ result.byExtension[e].files >= 2
          /\ result.byExtension[e].blankLines > 0
          /\ result.byExtension[e].commentLines > 0

(***************************************************************************)
(* C4: with a non-empty extensions list E every bucket key is in E and in  *)
(* the allow-list of text extensions; with extensions omitted or empty     *)
(* every bucket key is in the allow-list.                                  *)
(***************************************************************************)
C4_FilterCorrect ==
    (IsLines /\ result.success) =>
        \A e \in DOMAIN result.byExtension :
            /\ e \in textExtensions
            /\ (call.extensions.given /\ Len(call.extensions.list) > 0)
                  => InList(call.extensions.list, e)

\* extensions: ["ts", "bin"] on a directory holding a.ts, b.md and c.bin.
C4_Witness ==
    /\ IsLines /\ result.success
    /\ call.extensions = Extensions(<<E_ts, E_bin>>)
    /\ {<<N_a_ts>>, <<N_b_md>>, <<N_c_bin>>} \subseteq EntryPaths
    /\ DOMAIN result.byExtension = {E_ts}

(***************************************************************************)
(* C5: on a path that does not exist countLines and analyzeStructure       *)
(* return success = false with a non-empty error and none of their data    *)
(* fields.                                                                 *)
(***************************************************************************)
C5_NotFound ==
    (fs.kind = "none" /\ (IsLines \/ IsStructure)) =>
        /\ result.success = FALSE
        /\ "error" \in DOMAIN result
        /\ result.error.text # ""
        /\ DOMAIN result \cap (LineDataFields \cup StructureDataFields) = {}

C5_Witness ==
    /\ fs.kind = "none"
    /\ IsLines
    /\ result = [success |-> FALSE, error |-> ErrorText(MsgPathNotFound, TargetPath)]

(***************************************************************************)
(* C6: when a fault interrupts the traversal, countLines returns only      *)
(* success = false and the error, analyzeStructure only success = false,   *)
(* the path and the error: nothing counted or rendered before the fault is *)
(* returned.                                                               *)
(***************************************************************************)
LinesFault == IsLines /\ existsSync(fs) /\ LinesWalk(fs, TargetPath, call.extensions).thrown

StructureFault ==
    /\ IsStructure /\ existsSync(fs)
    /\ StructureWalk(fs, TargetPath, call.maxDepth, call.showHidden).thrown

C6_NoPartialResult ==
    /\ LinesFault =>
          /\ DOMAIN result = {"success", "error"}
          /\ result.success = FALSE
          /\ result.error.text # ""
    /\ StructureFault =>
          /\ DOMAIN result = {"success", "path", "error"}
          /\ result.success = FALSE
          /\ result.path = TargetPath
          /\ result.error.text # ""

\* The fault came after a file had been counted.
C6_Witness ==
    /\ LinesFault
    /\ LinesWalk(fs, TargetPath, call.extensions).stats.totalFiles > 0
    /\ result.success = FALSE

(***************************************************************************)
(* The lines of the classified content, as the block-comment rule reads    *)
(* them.                                                                   *)
(***************************************************************************)
Trimmed(i) == Trim(Lines[i])
IsBlank(i) == Trimmed(i) = <<>>
HasEnd(i) == Includes(Trimmed(i), getMultiLineCommentEnd(ext))
StartsBlock(i) ==
    /\ StartsWith(Trimmed(i), getMultiLineCommentStart(ext))
    /\ getMultiLineCommentStart(ext) # Null
    /\ ~HasEnd(i)

\* Line i opened the multi-line state: closed before it, open after it.
Opened(i) ==
    /\ StartsBlock(i)
    /\ cls[i].open
    /\ i = 1 \/ ~cls[i - 1].open

\* No line strictly between i and j contains the end token.
StillOpen(i, j) == \A k \in (i + 1)..(j - 1) : ~HasEnd(k)

(***************************************************************************)
(* C7 as stated: once a line opens the multi-line state, every following   *)
(* line up to and including the first one that contains the end token is   *)
(* classified as comment, and the state is closed after that line.         *)
(***************************************************************************)
C7_EveryLineInBlockIsComment ==
    \A i \in 1..pos : \A j \in (i + 1)..pos :
        (Opened(i) /\ StillOpen(i, j)) =>
            /\ cls[j].kind = "comment"
            /\ cls[j].open = ~HasEnd(j)

(***************************************************************************)
(* C7 as amended: once a line opens the multi-line state, every following  *)
(* line that is not empty after trimming, up to and including the first    *)
(* one that contains the end token, is classified as comment; a line that  *)
(* is empty after trimming is classified as blank and leaves the state     *)
(* open; the state is closed after the line that contains the end token.   *)
(***************************************************************************)
C7_NonBlankLinesInBlockAreComment ==
    \A i \in 1..pos : \A j \in (i + 1)..pos :
        (Opened(i) /\ StillOpen(i, j)) =>
            /\ cls[j].kind = (IF IsBlank(j) THEN "blank" ELSE "comment")
            /\ cls[j].open = ~HasEnd(j)

\* An opening line, a comment line inside, the closing line, then a code line.
C7_Witness ==
    /\ pos = 4
    /\ Opened(1)
    /\ ~IsBlank(2) /\ ~HasEnd(2) /\ cls[2].kind = "comment"
    /\ HasEnd(3) /\ cls[3].kind = "comment" /\ ~cls[3].open
    /\ cls[4].kind = "code"

(***************************************************************************)
(* C8: with maxDepth = d the rendered tree of a successful analyzeStructure*)
(* lists exactly the unfiltered entries less than d levels below the       *)
(* target's children, each once.                                           *)
(***************************************************************************)
C8_DepthBound ==
    (IsStructure /\ result.success /\ call.maxDepth.finite) =>
        /\ RenderedPaths(result.tree) = Expected(call.maxDepth, call.showHidden)
        /\ Len(result.tree) = Cardinality(Expected(call.maxDepth, call.showHidden))

\* maxDepth: 2 cuts an entry three levels down while listing the two above it.
C8_Witness ==
    /\ IsStructure /\ result.success
    /\ call.maxDepth = Depth(2)
    /\ Len(result.tree) >= 2
    /\ \E p \in EntryPaths : Len(p) = 3 /\ ~HasHiddenPart(p)

(***************************************************************************)
(* C9: files beneath a dot-prefixed or node_modules directory, and         *)
(* dot-prefixed files, contribute nothing to a countLines result: the      *)
(* result is the one obtained on the tree without them.                    *)
(***************************************************************************)
C9_PrunedEntriesCountNothing ==
    (IsLines /\ TargetIsDir) =>
        /\ result = countLines([fs EXCEPT !.children = PruneForLines(fs.children)],
                               TargetPath, call.extensions)
        /\ result.success =>
              result.totalFiles <=
                  Cardinality({p \in EntryPaths :
                                  /\ EntryAt(fs, p).kind = "file"
                                  /\ ~HiddenName(p[Len(p)])
                                  /\ ~UnderPrunedDir(p)})

\* A readable a.ts two directories down, beneath a pruned directory.
C9_Witness ==
    /\ IsLines /\ TargetIsDir /\ result.success
    /\ ~call.extensions.given
    /\ \E p \in EntryPaths :
          /\ Len(p) = 3 /\ p[3] = N_a_ts /\ EntryAt(fs, p).ok
          /\ UnderPrunedDir(p)

(***************************************************************************)
(* C10: analyzeStructure with showHidden = false renders and counts no     *)
(* dot-prefixed entry and nothing beneath one; with showHidden = true it   *)
(* renders and counts them like any other entry.                           *)
(***************************************************************************)
C10_HiddenEntries ==
    (IsStructure /\ result.success) =>
        LET shown == Expected(call.maxDepth, call.showHidden)
        IN  /\ RenderedPaths(result.tree) = shown
            /\ ~call.showHidden =>
                  \A i \in 1..Len(result.tree) : ~HasHiddenPart(LinePath(result.tree, i))
            /\ result.stats.totalDirs =
                  Cardinality({p \in shown : EntryAt(fs, p).kind = "dir"})
            /\ result.stats.totalFiles =
                  Cardinality({p \in shown : EntryAt(fs, p).kind # "dir"})

\* showHidden: true renders .git and the file inside it.
C10_Witness ==
    /\ IsStructure /\ result.success
    /\ call.showHidden
    /\ \E p \in RenderedPaths(result.tree) : Len(p) = 2 /\ p[1] = N_git
    /\ result.stats.totalDirs >= 1 /\ result.stats.totalFiles >= 1

(***************************************************************************)
(* Vocabulary of the dependency analysis.                                  *)
(***************************************************************************)
IsDependencies == call.op = "analyzeDependencies"

DevDepsRequested == includeDevDepsOf(call.includeDevDeps)

\* The manifest can be read and its text is well-formed JSON.
Parseable == manifest.exists /\ manifest.readable /\ manifest.wellFormed

ManifestField(key) == Get(manifest.value, key)

\* null, false, 0 and the empty string: the values of a field that is
\* present in the manifest and still counts as missing.
EmptyValue(x) ==
    \/ x.t = "null"
    \/ x.t = "boolean" /\ ~x.v
    \/ x.t = "number" /\ x.v = 0
    \/ x.t = "string" /\ Len(x.v) = 0

WithoutDevDependencies(r) == [f \in DOMAIN r \ {"devDependencies"} |-> r[f]]

\* With includeDevDeps=false the result has no devDependencies field and
\* is otherwise the result of the same call with includeDevDeps=true.
DevDepsExcluded ==
    IsDependencies /\ Parseable /\ ~DevDepsRequested =>
        /\ "devDependencies" \notin DOMAIN result
        /\ result = WithoutDevDependencies(
                        analyzeDependencies(manifest, TargetPath, Arg(TRUE)))

\* C11 (as stated): analyzeDependencies with includeDevDeps=false on a
\* parseable manifest returns no devDependencies field and the same name,
\* version, description, dependencies and scripts as with
\* includeDevDeps=true; with includeDevDeps=true the devDependencies field
\* is present exactly when the manifest has that field.
C11_DevDepsWhenFieldPresent ==
    /\ DevDepsExcluded
    /\ IsDependencies /\ Parseable /\ DevDepsRequested =>
        ("devDependencies" \in DOMAIN result
            <=> HasKey(manifest.value, "devDependencies"))

\* C11 (amended): as above, except that with includeDevDeps=true the
\* devDependencies field is present exactly when the manifest has that
\* field with a value other than null, false, 0 or the empty string.
C11_DevDepsWhenFieldNotEmpty ==
    /\ DevDepsExcluded
    /\ IsDependencies /\ Parseable /\ DevDepsRequested =>
        ("devDependencies" \in DOMAIN result
            <=> /\ HasKey(manifest.value, "devDependencies")
                /\ ~EmptyValue(ManifestField("devDependencies")))

C11_Witness ==
    /\ IsDependencies /\ Parseable /\ ~DevDepsRequested
    /\ HasKey(manifest.value, "devDependencies")
    /\ ManifestField("devDependencies").t = "object"
    /\ Len(ManifestField("devDependencies").v) > 0
    /\ result.success
    /\ "dependencies" \in DOMAIN result
    /\ "scripts" \in DOMAIN result

\* C12: analyzeDependencies returns success=false with a non-empty error
\* and none of name, version, description, dependencies, devDependencies,
\* scripts, both when package.json does not exist and when it exists but
\* cannot be read, parsed or projected.
C12_ManifestFailure ==
    IsDependencies /\ (~Parseable \/ manifest.value.t = "null") =>
        /\ DOMAIN result = {"success", "error"}
        /\ ~result.success
        /\ result.error.text # ""

C12_Witness ==
    /\ IsDependencies
    /\ manifest.exists /\ manifest.readable /\ ~manifest.wellFormed
    /\ ~result.success

C14_ErrorFlagIffFailure ==
    call.op # "none" =>
        /\ "isError" \in DOMAIN response <=> ~result.success
        /\ ~result.success =>
            /\ response.isError
            /\ response.content = TextContent(<<Seg(MsgErrorPrefix, result.error)>>)
        /\ result.success =>
            LET text == response.content[1].text
            IN  /\ DOMAIN response = {"content"}
                /\ Len(response.content) = 1
                /\ IsStructure =>
                    /\ text[1].val = result.path
                    /\ text[2].val = result.tree
                    /\ text[3].val = result.stats.totalFiles
                    /\ text[4].val = result.stats.totalDirs
                /\ IsDependencies =>
                    /\ text[1].val = result.name
                    /\ text[2].val = result.version
                /\ IsLines =>
                    /\ text[1].val = result.totalFiles
                    /\ text[2].val = result.totalLines
                    /\ text[3].val = result.codeLines
                    /\ text[4].val = result.commentLines
                    /\ text[5].val = result.blankLines

C14_Witness ==
    /\ IsLines
    /\ ~result.success
    /\ "isError" \in DOMAIN response
    /\ response.content[1].text[1].val = result.error

(***************************************************************************)
(* Vocabulary of the cache: the last set of a key and its deadline.        *)
(***************************************************************************)
WasSet(key) == key \in DOMAIN hist.sets

\* The time of the last set of the key plus that set's effective TTL.
Deadline(key) ==
    hist.sets[key].at + EffectiveTTL(cache.defaultTTL, hist.sets[key].ttl)

\* C15: a get of a key whose last set, with no clear since, was at time t
\* with effective TTL d returns the value set when the time is at most
\* t + d, and returns null and leaves the key out of the store when the
\* time is later than t + d; a get of a key not set returns null.
C15_GetUntilDeadline ==
    call.op = "get" =>
        IF WasSet(call.key)
        THEN /\ now <= Deadline(call.key) =>
                    /\ result = Value(hist.sets[call.key].data)
                    /\ call.key \in DOMAIN cache.store
             /\ now > Deadline(call.key) =>
                    /\ result = NullValue
                    /\ call.key \notin DOMAIN cache.store
        ELSE result = NullValue

C15_Witness ==
    /\ call.op = "get"
    /\ WasSet(call.key)
    /\ now > Deadline(call.key)
    /\ call.key \in hist.removed
    /\ \E other \in DOMAIN cache.store : now = Deadline(other)

\* C16: cleanup removes exactly the entries whose expiry is strictly
\* earlier than the current time and leaves every other entry's value and
\* expiry as they were.
C16_CleanupRemovesExactlyExpired ==
    [][call'.op = "cleanup" =>
        cache'.store =
            [k \in {x \in DOMAIN cache.store : ~(cache.store[x].expiry < now)}
                |-> cache.store[k]]]_vars

C16_Witness ==
    /\ call.op = "cleanup"
    /\ hist.removed # {}
    /\ \E k \in DOMAIN cache.store : cache.store[k].expiry = now

\* C17: set with an explicit ttl makes the entry expire ttl milliseconds
\* after the set, for every ttl supplied; the default TTL, the constructor's
\* seconds times 1000, is used only when the ttl argument is omitted.
C17_ExplicitTtlAlwaysUsed ==
    call.op = "set" =>
        cache.store[call.key].expiry =
            now + (IF call.ttl.given THEN call.ttl.value ELSE cache.defaultTTL)

\* A set with the ttl argument 0 has happened.
C17_Witness ==
    /\ call.op = "set"
    /\ call.ttl = Arg(0)
    /\ cache.store[call.key].expiry = now + cache.defaultTTL

(***************************************************************************)
(* Vocabulary of the utility functions.                                    *)
(***************************************************************************)
Returned(op) == call.op = op /\ ~Pending

\* The location the target resolves to is the base directory or below it:
\* the segments of the base are the first segments of the location.
InsideBase ==
    LET location == ResolvedSegments(<<call.basePath, call.targetPath>>)
        base == ResolvedSegments(<<call.basePath>>)
    IN  Len(location) >= Len(base) /\ SubSeq(location, 1, Len(base)) = base

\* C18: validatePath returns the resolved absolute path only when it is
\* the base directory or lies inside it, and throws the path-escape error
\* for every target that resolves outside the base directory, a sibling
\* whose name begins with the base directory's name included.
C18_ThrowsOutsideBase ==
    Returned("validatePath") =>
        /\ result.thrown <=> ~InsideBase
        /\ result.thrown => result.message = MsgPathEscape
        /\ ~result.thrown =>
                result.value = resolve(<<call.basePath, call.targetPath>>)

\* A target outside the base directory has been returned.
C18_Witness ==
    /\ Returned("validatePath")
    /\ ~InsideBase
    /\ ~result.thrown

\* C19: calculate returns isError=true, with result NaN and the
\* divide-by-zero message, exactly when the operation is divide and b is
\* 0, whatever a is; otherwise isError=false, there is no errorMessage and
\* result is a+b, a-b, a*b or a/b according to the operation.
C19_ErrorIffDivideByZero ==
    Returned("calculate") =>
        /\ result.isError <=> (call.operation = "divide" /\ call.b = 0)
        /\ result.isError =>
                /\ result.result.nan
                /\ result.errorMessage = MsgDivideByZero
        /\ ~result.isError =>
                /\ "errorMessage" \notin DOMAIN result
                /\ ~result.result.nan
                /\ call.operation = "add" =>
                        result.result.num = (call.a + call.b) * result.result.den
                /\ call.operation = "subtract" =>
                        result.result.num = (call.a - call.b) * result.result.den
                /\ call.operation = "multiply" =>
                        result.result.num = (call.a * call.b) * result.result.den
                /\ call.operation = "divide" =>
                        result.result.num * call.b = call.a * result.result.den
                /\ result.result.den # 0

C19_Witness ==
    /\ Returned("calculate")
    /\ call.operation = "divide"
    /\ call.a = 0
    /\ call.b = 0
    /\ result.isError

\* C20: generateRandomNumbers with integer min and max returns
\* isError=true and no numbers exactly when min > max; otherwise it
\* returns isError=false and exactly count numbers, each an integer n with
\* min <= n <= max, whatever the random source returns.
C20_NumbersWithinRange ==
    Returned("generateRandomNumbers") =>
        /\ result.isError <=> call.min > call.max
        /\ result.isError => result.numbers = <<>>
        /\ ~result.isError =>
                /\ Len(result.numbers) = (IF call.count.given THEN call.count.value ELSE 1)
                /\ \A i \in 1..Len(result.numbers) :
                        /\ result.numbers[i] \in Int
                        /\ call.min <= result.numbers[i]
                        /\ result.numbers[i] <= call.max

C20_Witness ==
    /\ Returned("generateRandomNumbers")
    /\ ~result.isError
    /\ call.min < call.max
    /\ Len(result.numbers) = 2
    /\ result.numbers[1] = call.min
    /\ result.numbers[2] = call.max

\* C21: getHelpTopic returns the uri help://topic/<topic> and the mimeType
\* text/plain for every topic; its content is the matching help text when
\* the topic is tools, resources or prompts, and the unknown-topic message
\* for every other topic.
C21_UnknownTopicMessage ==
    Returned("getHelpTopic") =>
        /\ result.uri = Seg("help://topic/", call.topic)
        /\ result.mimeType = "text/plain"
        /\ call.topic \in {"tools", "resources", "prompts"} =>
                result.content = helpTopics[call.topic]
        /\ call.topic \notin {"tools", "resources", "prompts"} =>
                result.content = MsgUnknownTopic

\* A topic that names a property of Object.prototype has been asked for.
C21_Witness ==
    /\ Returned("getHelpTopic")
    /\ call.topic = "constructor"
    /\ result.content.t = "inherited"

(***************************************************************************)
(* Vocabulary of the classifier's precedence.                              *)
(***************************************************************************)
\* The multi-line state before line i.
OpenBefore(i) == i > 1 /\ cls[i - 1].open

StartsWithToken(i, token) == token # Null /\ StartsWith(Trimmed(i), token)

\* The kind the precedence gives line i when the state before it is open
\* or not.
KindByPrecedence(i, open) ==
    IF IsBlank(i) THEN "blank"
    ELSE IF open THEN "comment"
    ELSE IF StartsWithToken(i, getMultiLineCommentStart(ext)) THEN "comment"
    ELSE IF StartsWithToken(i, getSingleLineCommentPattern(ext)) THEN "comment"
    ELSE "code"

\* The number of line feeds of a text.
LineFeeds(text) == Cardinality({i \in 1..Len(text) : text[i] = "\n"})

\* C22: every line of the split content increments exactly one of blank,
\* comment and code, chosen by the precedence empty, state open, block-start
\* token, single-line token, code; an extension with neither token has no
\* comment line; total is the number of split segments.
C22_ClassifiedByPrecedence ==
    /\ lst.blank + lst.comment + lst.code = pos
    /\ \A i \in 1..pos :
            /\ cls[i].kind = KindByPrecedence(i, OpenBefore(i))
            /\ cls[i].kind \in {"blank", "comment", "code"}
    /\ lst.blank = Cardinality({i \in 1..pos : cls[i].kind = "blank"})
    /\ lst.comment = Cardinality({i \in 1..pos : cls[i].kind = "comment"})
    /\ (getMultiLineCommentStart(ext) = Null /\ getSingleLineCommentPattern(ext) = Null)
            => lst.comment = 0
    /\ call.op = "analyzeFileLines" =>
            /\ result.total = LineFeeds(content) + 1
            /\ result.total = result.blank + result.comment + result.code

\* A blank line inside an open block, then a single-line comment taken for
\* a comment because the block is open, in a language with no such token.
C22_Witness ==
    /\ call.op = "analyzeFileLines"
    /\ ext = E_css
    /\ pos = 4
    /\ cls[1].open
    /\ IsBlank(2) /\ cls[2].kind = "blank" /\ cls[2].open
    /\ Trimmed(3) = SlashSlash /\ cls[3].kind = "comment"
    /\ HasEnd(4)

\* C23: a line that starts with the block-start token and contains the end
\* token is counted as comment and leaves the multi-line state closed: the
\* next line is classified as the precedence classifies it with the state
\* closed.
C23_SelfClosingLine ==
    \A i \in 1..pos :
        (StartsWithToken(i, getMultiLineCommentStart(ext)) /\ HasEnd(i)) =>
            /\ cls[i].kind = "comment"
            /\ ~cls[i].open
            /\ i < pos => cls[i + 1].kind = KindByPrecedence(i + 1, FALSE)

C23_Witness ==
    /\ pos >= 2
    /\ ~OpenBefore(1)
    /\ StartsWithToken(1, getMultiLineCommentStart(ext)) /\ HasEnd(1)
    /\ cls[1].kind = "comment"
    /\ cls[2].kind = "code"

(***************************************************************************)
(* Vocabulary of the rendered order.                                       *)
(***************************************************************************)
Indent(tree, i) == Len(tree[i].prefix)

\* Lines i < j of a rendered tree belong to the same directory level.
Siblings(tree, i, j) ==
    /\ i < j
    /\ Indent(tree, i) = Indent(tree, j)
    /\ \A k \in (i + 1)..(j - 1) : Indent(tree, k) >= Indent(tree, i)

\* The shown entries of the file system below the entry at path p.
ShownBelow(p) ==
    {q \in Expected(call.maxDepth, call.showHidden) :
        Len(q) > Len(p) /\ SubSeq(q, 1, Len(p)) = p}

\* C24: at every rendered level directories precede non-directories, names
\* ascend within each group, and the shown entries below a directory are
\* rendered right after its line, before its next sibling.
C24_RenderedOrder ==
    (IsStructure /\ result.success) =>
        LET tree == result.tree
        IN  /\ \A i, j \in 1..Len(tree) :
                    Siblings(tree, i, j) =>
                        /\ ~(~tree[i].slash /\ tree[j].slash)
                        /\ tree[i].slash = tree[j].slash =>
                                localeCompare(tree[i].name, tree[j].name) < 0
            /\ \A i \in 1..Len(tree) :
                    tree[i].slash =>
                        LET below == ShownBelow(LinePath(tree, i))
                            n == Cardinality(below)
                        IN  /\ i + n <= Len(tree)
                            /\ {LinePath(tree, k) : k \in (i + 1)..(i + n)} = below
                            /\ \A k \in (i + 1)..(i + n) :
                                    Indent(tree, k) > Indent(tree, i)
                            /\ i + n < Len(tree) =>
                                    Indent(tree, i + n + 1) <= Indent(tree, i)
            /\ \A i \in 1..Len(tree) : ~tree[i].slash =>
                    (i < Len(tree) => Indent(tree, i + 1) <= Indent(tree, i))

\* The readdir order puts a file before a directory that has a child; the
\* rendering has the directory, its child, then the file.
C24_Witness ==
    /\ IsStructure /\ result.success
    /\ ~call.maxDepth.finite
    /\ Len(fs.children) = 2
    /\ isFile(fs.children[1])
    /\ fs.children[2].name = N_src
    /\ Len(fs.children[2].children) = 1
    /\ Len(result.tree) = 3
    /\ result.tree[1].name = N_src /\ result.tree[1].slash
    /\ Indent(result.tree, 2) = 1
    /\ result.tree[3].name = fs.children[1].name /\ ~result.tree[3].slash

(***************************************************************************)
(* Vocabulary of the files a line count reaches.                           *)
(***************************************************************************)
ExtOf(path) == Slice1(Extname(path[Len(path)]))

\* The files the walk reaches that pass the filters, readable or not.
AcceptedFiles ==
    {p \in EntryPaths :
        /\ EntryAt(fs, p).kind = "file"
        /\ ~UnderPrunedDir(p)
        /\ ~HiddenName(p[Len(p)])
        /\ ExtOf(p) \in textExtensions
        /\ ~(call.extensions.given /\ Len(call.extensions.list) > 0
                /\ ~InList(call.extensions.list, ExtOf(p)))}

ReadFiles == {p \in AcceptedFiles : EntryAt(fs, p).ok}

\* Some directory the walk lists cannot be listed.
ListingFails ==
    \E p \in EntryPaths :
        /\ EntryAt(fs, p).kind = "dir" /\ ~EntryAt(fs, p).ok
        /\ ~UnderPrunedDir(p)
        /\ ~HiddenName(p[Len(p)]) /\ p[Len(p)] # N_node_modules

RECURSIVE SumFileLines(_)
SumFileLines(paths) ==
    IF paths = {} THEN 0
    ELSE LET p == CHOOSE x \in paths : TRUE
         IN  analyzeFileLines(EntryAt(fs, p).content, ExtOf(p)).total
                + SumFileLines(paths \ {p})

\* C25: an accepted file whose read fails adds nothing to totalFiles, to the
\* line totals or to any bucket, the walk goes on, and unless a directory
\* listing fails the call returns success = true without an error field.
C25_UnreadableFileSkipped ==
    (IsLines /\ TargetIsDir) =>
        /\ ~ListingFails => (result.success /\ "error" \notin DOMAIN result)
        /\ result.success =>
                /\ result.totalFiles = Cardinality(ReadFiles)
                /\ result.totalLines = SumFileLines(ReadFiles)
                /\ DOMAIN result.byExtension = {ExtOf(p) : p \in ReadFiles}

\* An unreadable a.ts listed before a readable b.md: one file, no ts bucket.
C25_Witness ==
    /\ IsLines /\ TargetIsDir /\ result.success
    /\ ~call.extensions.given
    /\ Len(fs.children) >= 2
    /\ fs.children[1].name = N_a_ts /\ ~fs.children[1].ok
    /\ fs.children[2].name = N_b_md
    /\ AcceptedFiles # ReadFiles
    /\ result.totalFiles = 1
    /\ DOMAIN result.byExtension = {E_md}

\* The shown entries of the file system that are directories.
ShownDirs ==
    {p \in Expected(call.maxDepth, call.showHidden) : EntryAt(fs, p).kind = "dir"}

\* C27: in a successful analyzeStructure result totalDirs is the number of
\* rendered lines that denote directories and totalFiles the number of the
\* other lines, so they add up to the length of the tree; a directory at
\* the depth cutoff is counted and rendered, its children are neither.
C27_StatsMatchRenderedLines ==
    (IsStructure /\ result.success) =>
        LET tree == result.tree
            dirLines == {i \in 1..Len(tree) : tree[i].slash}
        IN  /\ result.stats.totalDirs = Cardinality(dirLines)
            /\ result.stats.totalFiles = Len(tree) - Cardinality(dirLines)
            /\ result.stats.totalFiles + result.stats.totalDirs = Len(tree)
            /\ {LinePath(tree, i) : i \in dirLines} = ShownDirs
            /\ result.stats.totalDirs = Cardinality(ShownDirs)
            /\ call.maxDepth.finite =>
                    \A i \in 1..Len(tree) : Indent(tree, i) < call.maxDepth.value

\* maxDepth 1 over a file and a directory that has a child: two lines, one
\* directory counted, the child not rendered.
C27_Witness ==
    /\ IsStructure /\ result.success
    /\ call.maxDepth = Depth(1)
    /\ \E p \in ShownDirs : Len(p) = 1 /\ Len(EntryAt(fs, p).children) > 0
    /\ result.stats.totalDirs = 1 /\ result.stats.totalFiles = 1
    /\ Len(result.tree) = 2

(***************************************************************************)
(* Vocabulary of one file classified alone: the lines of a text that are   *)
(* comment, given only that text and its extension.                        *)
(***************************************************************************)
HasToken(line, token) == token # Null /\ StartsWith(Trim(line), token)

\* Some earlier line of the same text starts a block that no line in
\* between ends.
InBlockAlone(lines, e, i) ==
    \E j \in 1..(i - 1) :
        /\ HasToken(lines[j], getMultiLineCommentStart(e))
        /\ \A k \in j..(i - 1) :
                \/ getMultiLineCommentEnd(e) = Null
                \/ ~Includes(Trim(lines[k]), getMultiLineCommentEnd(e))

CommentsAlone(text, e) ==
    LET lines == SplitLines(text)
    IN  Cardinality({i \in 1..Len(lines) :
            /\ Trim(lines[i]) # <<>>
            /\ \/ InBlockAlone(lines, e, i)
               \/ HasToken(lines[i], getMultiLineCommentStart(e))
               \/ HasToken(lines[i], getSingleLineCommentPattern(e))})

BlanksAlone(text) ==
    LET lines == SplitLines(text)
    IN  Cardinality({i \in 1..Len(lines) : Trim(lines[i]) = <<>>})

RECURSIVE SumAlone(_, _)
SumAlone(paths, kind) ==
    IF paths = {} THEN 0
    ELSE LET p == CHOOSE x \in paths : TRUE
             text == EntryAt(fs, p).content
             n == IF kind = "comment" THEN CommentsAlone(text, ExtOf(p))
                  ELSE IF kind = "blank" THEN BlanksAlone(text)
                  ELSE Len(SplitLines(text)) - CommentsAlone(text, ExtOf(p))
                          - BlanksAlone(text)
         IN  n + SumAlone(paths \ {p}, kind)

\* C30: the multi-line state does not pass from one file to the next: the
\* counts of a countLines result, in all and per extension, are the sums of
\* the counts each read file has when its text is classified alone.
C30_StateLocalToFile ==
    (IsLines /\ result.success) =>
        /\ result.commentLines = SumAlone(ReadFiles, "comment")
        /\ result.blankLines = SumAlone(ReadFiles, "blank")
        /\ result.codeLines = SumAlone(ReadFiles, "code")
        /\ \A e \in DOMAIN result.byExtension :
                LET files == {p \in ReadFiles : ExtOf(p) = e}
                    b == result.byExtension[e]
                IN  /\ b.commentLines = SumAlone(files, "comment")
                    /\ b.blankLines = SumAlone(files, "blank")
                    /\ b.codeLines = SumAlone(files, "code")

\* src/a.ts ends inside a block comment it never closes; b.md, visited after
\* it, has its line counted as code.
C30_Witness ==
    /\ IsLines /\ result.success
    /\ Len(fs.children) = 2
    /\ fs.children[1].name = N_src
    /\ Len(fs.children[1].children) = 1
    /\ fs.children[1].children[1] = File(N_a_ts, ContentA, TRUE)
    /\ fs.children[2] = File(N_b_md, ContentM, TRUE)
    /\ ~call.extensions.given
    /\ result.byExtension[E_md].codeLines = 1
    /\ result.byExtension[E_md].commentLines = 0
    /\ result.byExtension[E_ts].commentLines = 2

(***************************************************************************)
(* Vocabulary of the cache's size.                                         *)
(***************************************************************************)
\* The keys for which a get at this instant returns a value: set, with no
\* clear since, and not past the deadline.
LiveKeys == {k \in KeySet : WasSet(k) /\ now <= Deadline(k)}

\* The keys set, with no clear since, that are past their deadline.
LapsedKeys == {k \in KeySet : WasSet(k) /\ now > Deadline(k)}

\* C28: size is the number of stored entries, which are the live keys and
\* those lapsed keys that no get or cleanup has removed yet; so size is at
\* least the number of live keys, equal to it right after cleanup, and 0
\* right after clear.
C28_SizeCountsStoredEntries ==
    /\ LiveKeys \subseteq DOMAIN cache.store
    /\ DOMAIN cache.store \subseteq LiveKeys \cup LapsedKeys
    /\ call.op = "size" =>
            /\ result = Value(Cardinality(DOMAIN cache.store))
            /\ result.data >= Cardinality(LiveKeys)
    /\ call.op = "cleanup" =>
            Cardinality(DOMAIN cache.store) = Cardinality(LiveKeys)
    /\ call.op = "clear" =>
            Cardinality(DOMAIN cache.store) = 0
    /\ call.op = "get" => call.key \notin DOMAIN cache.store \cap LapsedKeys

\* size answers 2 while one of the two stored entries is past its expiry.
C28_Witness ==
    /\ call.op = "size"
    /\ result = Value(2)
    /\ Cardinality(LiveKeys) = 1
    /\ Cardinality(DOMAIN cache.store \cap LapsedKeys) = 1

\* C29: the value and expiry stored for a key differ after a step only
\* when the step is a set of that key, which stores the new value and
\* expiry and leaves the number of entries as it was when the key was
\* stored already; get, cleanup, size, clear and the passing of time leave
\* every entry that stays stored as it was.
C29_OnlySetChangesAnEntry ==
    [][/\ \A k \in DOMAIN cache.store \cap DOMAIN cache'.store :
              cache'.store[k] # cache.store[k] =>
                  (call'.op = "set" /\ call'.key = k)
       /\ \A k \in DOMAIN cache'.store \ DOMAIN cache.store :
              (call'.op = "set" /\ call'.key = k)
       /\ (call'.op = "set" /\ call'.key \in DOMAIN cache.store) =>
              /\ DOMAIN cache'.store = DOMAIN cache.store
              /\ cache'.store[call'.key].data = call'.data
              /\ cache'.store[call'.key].expiry =
                     now + EffectiveTTL(cache.defaultTTL, call'.ttl)
      ]_vars

\* A get answers with the value some time after the set, and the entry
\* still expires when that set said.
C29_Witness ==
    /\ call.op = "get"
    /\ ~result.isNull
    /\ now > hist.sets[call.key].at
    /\ cache.store[call.key].expiry = Deadline(call.key)
    /\ Cardinality(DOMAIN cache.store) = 2

(***************************************************************************)
(* Vocabulary of symbolic links.                                           *)
(***************************************************************************)
LinkPaths == {p \in EntryPaths : EntryAt(fs, p).kind = "link"}

\* The tree with every symbolic link removed.
RECURSIVE WithoutLinks(_)
WithoutLinks(entries) ==
    IF entries = <<>> THEN <<>>
    ELSE LET e == Head(entries)
             rest == WithoutLinks(Tail(entries))
         IN  IF e.kind = "link" THEN rest
             ELSE IF e.kind = "dir"
             THEN <<[e EXCEPT !.children = WithoutLinks(e.children)]>> \o rest
             ELSE <<e>> \o rest

\* C26, as claimed: on a tree that contains a cyclic symbolic link neither
\* countLines nor analyzeStructure with unbounded maxDepth ever returns a
\* result.
C26_NeverReturnsOnCyclicLink ==
    (TargetIsDir /\ LinkPaths # {}) =>
        ~(IsLines \/ (IsStructure /\ ~call.maxDepth.finite))

\* C26, amended: on a tree that contains a cyclic symbolic link both calls
\* return successfully; countLines counts what it counts on the tree
\* without the links, and analyzeStructure renders every shown link as one
\* line that is not a directory, has no line below it and is counted in
\* totalFiles.
C26_LinksAreNotFollowed ==
    (TargetIsDir /\ LinkPaths # {}) =>
        /\ IsLines =>
                /\ result.success
                /\ result = countLines([fs EXCEPT !.children = WithoutLinks(fs.children)],
                                       TargetPath, call.extensions)
        /\ IsStructure =>
                LET tree == result.tree
                    shown == Expected(call.maxDepth, call.showHidden)
                IN  /\ result.success
                    /\ Len(tree) = Cardinality(shown)
                    /\ RenderedPaths(tree) = shown
                    /\ \A i \in 1..Len(tree) :
                            LinePath(tree, i) \in LinkPaths =>
                                /\ ~tree[i].slash
                                /\ i < Len(tree) => Indent(tree, i + 1) <= Indent(tree, i)
                    /\ result.stats.totalFiles =
                            Cardinality({p \in shown : EntryAt(fs, p).kind # "dir"})

\* analyzeStructure with unbounded depth has returned on src/loop -> .. :
\* two lines, the link counted as a file.
C26_Witness ==
    /\ IsStructure /\ ~call.maxDepth.finite /\ result.success
    /\ fs.children = <<Dir(N_src, <<Link(N_loop, Parent)>>, TRUE)>>
    /\ Len(result.tree) = 2
    /\ result.tree[2].name = N_loop /\ ~result.tree[2].slash
    /\ result.stats = [totalFiles |-> 1, totalDirs |-> 1]

====
